---------------------------- MODULE Spec2Model ----------------------------
(***************************************************************************)
(* Model of the plot reader of signum-miner: Plot::prepare / Plot::read    *)
(* (src/src/plot.rs) and Reader::start_reading / the drive read task       *)
(* built by Reader::create_read_task (src/src/reader.rs), with the buffer  *)
(* pool channel, the CPU and GPU reply channels and the consumers that     *)
(* return buffers.  The build modelled has the opencl feature on, so the   *)
(* GPU channels and their markers exist.                                   *)
(***************************************************************************)
EXTENDS Integers, Sequences, FiniteSets, TLC

(***************************************************************************)
(* Bounds and program constants                                            *)
(***************************************************************************)

\* number of start_reading calls explored
MaxRounds == 2

\* largest plot, in nonces, that a single visit is explored with
MaxNonces == 9

SHABAL256_HASH_SIZE == 32

SCOOP_SIZE == SHABAL256_HASH_SIZE * 2

\* Reader::new's num_threads: the size of the rayon pool
num_threads == 2

\* bs.capacity(): the uniform capacity of a pool buffer, four nonces' scoops
buffer_cap == 256

\* the drive table handed to Reader::new: one drive holding two plots
Drives == {1}

PlotIds == {1, 2}

\* the sector sizes get_sector_size may report (powers of two)
SectorSizes == {64, 128, 256}

\* a Plot::new that keeps direct I/O whatever the size of the plot (kept
\* for comparison)
NewPlotAsRequested(account_id, start_nonce, nonces, direct, sector, dmy) ==
    [meta |-> [account_id |-> account_id, start_nonce |-> start_nonce,
               nonces |-> nonces],
     read_offset |-> 0, align_offset |-> 0, seek_base |-> 0,
     use_direct_io |-> direct, sector_size |-> sector, dummy |-> dmy]

\* a Plot as Plot::new returns it (plot.rs:159-174)
NewPlot(account_id, start_nonce, nonces, direct, sector, dmy) ==
    [meta |-> [account_id |-> account_id, start_nonce |-> start_nonce,
               nonces |-> nonces],
     read_offset |-> 0, align_offset |-> 0, seek_base |-> 0,
     \* direct I/O is given up when sector_size / 64 > nonces (plot.rs:150-156)
     use_direct_io |-> direct /\ ~(sector \div 64 > nonces),
     sector_size |-> sector, dummy |-> dmy]

\* number of record_* calls on the metrics explored, and the most MiB
\* recorded as read
MaxRecords == 4
MaxMiB == 2
MiB == 1024 * 1024

\* number of Plot::new calls explored
MaxCreated == 1

SCOOPS_IN_NONCE == 4096
NONCE_SIZE == SCOOP_SIZE * SCOOPS_IN_NONCE

\* u64 is explored on words of 30 bits, so that nonces * NONCE_SIZE leaves
\* the word at nonces = 2^12 as it leaves u64 at nonces = 2^46
WordModulus == 2^30

\* a field of a file name: whether str::parse::<u64> accepts it, and the
\* value it yields
Good(v) == [digits |-> TRUE, value |-> v]
Bad == [digits |-> FALSE, value |-> 0]

\* the last field of the names Plot::new is explored with: small plots, and
\* the first two counts whose product with NONCE_SIZE leaves the word
NewNonces == {0, 1, 2, 3, WordModulus \div NONCE_SIZE,
              WordModulus \div NONCE_SIZE + 1}

\* file_name().split('_'): three fields of either kind, and names of two
\* and of four fields
NewNames ==
    {<<a, s, n>> : a \in {Good(7), Bad}, s \in {Good(0), Bad},
                   n \in {Good(k) : k \in NewNonces} \cup {Bad}}
    \cup {<<Good(7), Good(0)>>, <<Good(7), Good(0), Good(1), Good(1)>>}

\* fs::metadata(path)?.len()
NewSizes == {0, NONCE_SIZE, NONCE_SIZE + 1, 2 * NONCE_SIZE, 3 * NONCE_SIZE}

\* what Plot::new is called with and what it finds: the path, the flags,
\* the sector size of the device, whether the open succeeds, and whether
\* the build checks arithmetic overflow (debug) or wraps (release)
NewInputs ==
    [is_file : BOOLEAN, name : NewNames, size : NewSizes,
     use_direct_io : BOOLEAN, dummy : {FALSE}, sector_size : SectorSizes,
     open_ok : BOOLEAN, overflow_checks : BOOLEAN]

\* the buffer pool: buffer 1 belongs to the CPU (id 0), buffer 2 to GPU 0 (id 1)
Buffers == {1, 2}

get_id(b) == b - 1

\* reply channels: 0 is tx_read_replies_cpu, i >= 1 is tx_read_replies_gpu[i-1]
GpuChans == {1}

Chans == {0} \cup GpuChans

\* the routing of a build without opencl: every reply to the CPU channel
\* (kept for comparison)
cpu_channel_only(id) == 0

\* match buffer.get_id() { 0 => tx_read_replies_cpu, i =>
\* tx_read_replies_gpu[i - 1] } (reader.rs:269-309), in the numbering of Chans
reply_channel(id) == IF id = 0 THEN 0 ELSE (id - 1) + 1

\* the (height, scoop) rounds are started with: every round is a new block,
\* one higher than the last
RoundInputs == {[height |-> 100 + r, scoop |-> 1] : r \in 1..MaxRounds}

\* largest start_nonce and nonces of the Metas overlaps_with is explored with
MaxStart == 3

MaxMetaNonces == 2

\* the drive tables update_plots is explored with
Tables == {<<1, 2>>, <<2, 1>>, <<1>>}

\* the total sizes update_plots is called with
MaxTotalSize == 2
TotalSizes == 1..MaxTotalSize

\* number of Reader::wakeup calls explored
MaxWakeups == 1

\* the scoops a single visit is explored with
VisitInputs == {[height |-> 101, scoop |-> s] : s \in 0..2}

NoTask == <<0, 0>>

\* the wakeup closure of drive d, as the holder of a guard
WakeId(d) == <<0, d>>

\* no wakeup closure spawned yet: pc is the closure's position, n the
\* number of wakeup calls so far
IdleWake == [pc |-> "none", n |-> 0]

\* MinerMetrics::new.  best_deadlines is a map from the accounts seen;
\* io_errors_by_drive reads 0 for a drive without entry; last_submission is
\* whether an instant is stored; avg_round_time_ms, a float, is kept as the
\* durations the moving average was fed, in order; start_time is left out.
NoMetrics ==
    [total_submissions |-> 0, successful_submissions |-> 0,
     failed_submissions |-> 0, best_deadlines |-> <<>>,
     rounds_completed |-> 0, rounds_failed |-> 0,
     io_errors_by_drive |-> [d \in Drives |-> 0], total_io_errors |-> 0,
     config_errors |-> 0, network_errors |-> 0, last_submission |-> FALSE,
     avg_round_time_ms |-> <<>>, total_bytes_read |-> 0]

NoBuffer == 0

TaskIds == (1..MaxRounds) \X Drives

VARIABLES
    plots,              \* the Plot objects, by plot id
    guard,              \* per plot: the task holding its Mutex, or NoTask
    drive_id_to_plots,  \* Reader.drive_id_to_plots
    interupts,          \* Reader.interupts: the tasks whose senders it holds
    empty_buffers,      \* the buffers queued in the empty_buffers channel
    chan,               \* per reply channel: every message enqueued, in order
    connected,          \* per reply channel: the receiver still exists
    tasks,              \* per drive task: its position and locals
    round,              \* number of start_reading calls so far
    dropped,            \* buffers destroyed without being sent or returned
    metrics,            \* MinerMetrics
    wake,               \* per drive: the position of its wakeup closure
    poisoned,           \* per plot: its Mutex is poisoned
    overlaps,           \* the calls of Meta::overlaps_with and their outcomes
    total_size,         \* Reader.total_size
    created,            \* the calls of Plot::new and what they returned
    submitted           \* the (account, deadline) pairs recorded as successes

\* what the drive tasks, start_reading and the consumers never write
aux == <<metrics, wake, poisoned, overlaps, total_size, created, submitted>>

vars == <<plots, guard, drive_id_to_plots, interupts, empty_buffers, chan,
          connected, tasks, round, dropped, metrics, wake, poisoned, overlaps,
          total_size, created, submitted>>

(***************************************************************************)
(* Plot (src/src/plot.rs)                                                  *)
(***************************************************************************)

\* a round_seek_addr that leaves the address as it is (kept for comparison)
no_rounding(seek_addr, sector) == 0

\* Plot::round_seek_addr: the remainder it returns; the address becomes
\* seek_addr - r
round_seek_addr(seek_addr, sector) == seek_addr % sector

\* Plot::prepare, all of it succeeding
prepare(pl, scoop) ==
    LET seek_addr == scoop * pl.meta.nonces * SCOOP_SIZE
        r == IF pl.use_direct_io THEN round_seek_addr(seek_addr, pl.sector_size)
             ELSE 0
    IN  [pl EXCEPT !.read_offset = 0, !.align_offset = r,
                   !.seek_base = seek_addr - r]

\* Plot::prepare failing in open(): only the two resets have happened
prepare_open_err(pl) ==
    [pl EXCEPT !.read_offset = 0, !.align_offset = 0]

\* a Plot::read that never shortens its last read (kept for comparison)
read_len_unclamped(pl, cap) ==
    [bytes_to_read |-> cap,
     finished |-> pl.read_offset + cap >= SCOOP_SIZE * pl.meta.nonces]

\* a Plot::read that takes a buffer that just fits for one more full read
\* (kept for comparison)
read_len_strict(pl, cap) ==
    LET region == SCOOP_SIZE * pl.meta.nonces
    IN  IF pl.read_offset + cap > region
        THEN LET btr == region - pl.read_offset
                 r == IF pl.use_direct_io THEN btr % pl.sector_size ELSE 0
             IN  [bytes_to_read |-> btr - r, finished |-> TRUE]
        ELSE [bytes_to_read |-> cap, finished |-> FALSE]

\* bytes_to_read and finished of Plot::read
read_len(pl, cap) ==
    LET region == SCOOP_SIZE * pl.meta.nonces
    IN  IF pl.read_offset + cap >= region
        THEN LET btr == region - pl.read_offset
                 r == IF pl.use_direct_io THEN btr % pl.sector_size ELSE 0
             IN  [bytes_to_read |-> btr - r, finished |-> TRUE]
        ELSE [bytes_to_read |-> cap, finished |-> FALSE]

\* a start_nonce shifted by the alignment (kept for comparison)
read_start_nonce_shifted(pl, scoop) ==
    pl.meta.start_nonce + scoop * pl.meta.nonces
    + (pl.align_offset + pl.read_offset) \div 64

\* a start_nonce that ignores read_offset (kept for comparison)
read_start_nonce_of_plot(pl, scoop) ==
    pl.meta.start_nonce + scoop * pl.meta.nonces

\* start_nonce of Plot::read
read_start_nonce(pl, scoop) ==
    pl.meta.start_nonce + scoop * pl.meta.nonces + pl.read_offset \div 64

\* the file offset Plot::read seeks to
read_seek_addr(pl) == pl.seek_base + pl.align_offset + pl.read_offset

\* a Plot::read that reports no bytes for a dummy plot (kept for comparison)
read_dummy_empty(pl, cap, scoop) ==
    LET l == read_len(pl, cap)
    IN  [bytes_read |-> IF pl.dummy THEN 0 ELSE l.bytes_to_read,
         start_nonce |-> read_start_nonce(pl, scoop),
         next_plot |-> l.finished,
         read_offset |-> pl.read_offset + l.bytes_to_read]

\* Plot::read returning Ok: the tuple and the new read_offset.  The dummy
\* flag guards the seek and the read_exact only (plot.rs:248-258), so it
\* decides whether the read can fail, not what an Ok carries.
read(pl, cap, scoop) ==
    LET l == read_len(pl, cap)
    IN  [bytes_read |-> l.bytes_to_read,
         start_nonce |-> read_start_nonce(pl, scoop),
         next_plot |-> l.finished,
         read_offset |-> pl.read_offset + l.bytes_to_read]

(***************************************************************************)
(* Messages (BufferInfo, src/src/reader.rs:19-33).  height stands for the  *)
(* round's (height, block, base_target, gensig), which travel together.    *)
(* task, plot, seq, ok and last are history fields: the sending task (for  *)
(* a round-start marker <<round, 0>>), the plot read, the position of the  *)
(* message among those the task sent, whether the read behind a data reply *)
(* returned Ok, and whether it ended the plot's visit.                     *)
(***************************************************************************)

\* A task record: the closure's position (pc), its captures (plots, height,
\* scoop), its locals (i_p, buffer, the tuple read, g: the GPU channel the
\* marker loop is at) and irq, the signals waiting in its rx_interupt.
\* History fields: withdrawn, filled, checked, nsent and returned count the
\* buffers received, the p.read calls, the interrupt checks, the data
\* replies enqueued and the buffers sent back to the pool; read_ok tells
\* whether the last p.read returned Ok; stop is why the closure returned.
IdleTask ==
    [pc |-> "none", i_p |-> 0, plots |-> <<>>, height |-> 0, scoop |-> 0,
     buffer |-> NoBuffer, bytes_read |-> 0, start_nonce |-> 0,
     next_plot |-> FALSE, read_ok |-> FALSE, irq |-> 0, g |-> 0,
     withdrawn |-> 0, filled |-> 0, checked |-> 0, nsent |-> 0,
     returned |-> 0, stop |-> "none"]

\* the data reply a task builds from its locals (reader.rs:272-285, 291-304)
DataReply(t, finished) ==
    LET tk == tasks[t]
    IN  [gpu_signal |-> 0, len |-> tk.bytes_read, height |-> tk.height,
         start_nonce |-> tk.start_nonce, finished |-> finished,
         account_id |-> plots[tk.plots[tk.i_p]].meta.account_id,
         buffer |-> tk.buffer, task |-> t, plot |-> tk.plots[tk.i_p],
         seq |-> tk.nsent + 1, ok |-> tk.read_ok, last |-> tk.next_plot]

\* a dummy-buffer marker: gpu_signal 1 (round start) or 2 (drive finished)
Marker(sig, height, t, seq) ==
    [gpu_signal |-> sig, len |-> 1, height |-> height, start_nonce |-> 0,
     finished |-> FALSE, account_id |-> 0, buffer |-> NoBuffer, task |-> t,
     plot |-> 0, seq |-> seq, ok |-> TRUE, last |-> FALSE]

\* let finished = i_p == (plot_count - 1) && next_plot; i_p counts from 1 here
finished_flag(i_p, plot_count, next_plot) == i_p = plot_count /\ next_plot

\* an error arm that announces a full buffer (kept for comparison)
read_error_full == [bytes_read |-> buffer_cap, start_nonce |-> 0, next_plot |-> TRUE]

\* the tuple the task substitutes for a failed read: (0, 0, true)
read_error_tuple == [bytes_read |-> 0, start_nonce |-> 0, next_plot |-> TRUE]

\* a pool whose threads are never free (kept for comparison)
AllBusy == TaskIds

\* tasks occupying a pool thread
Running == {t \in TaskIds : tasks[t].pc \notin {"none", "queued", "done"}}

\* wakeup closures occupying a pool thread
WakeRunning == {d \in Drives : wake[d].pc \in {"lock", "seek"}}

\* a Mutex that hands its guard to whoever asks (kept for comparison)
lock_unguarded(p) == IF poisoned[p] THEN "poisoned" ELSE "ok"

\* Mutex::lock on plot p: it blocks while another holds the guard, and
\* returns Err(poisoned) with the guard inside when the Mutex is poisoned
lock(p) ==
    IF guard[p] # NoTask THEN "blocked"
    ELSE IF poisoned[p] THEN "poisoned" ELSE "ok"

\* a match that takes the guard only from Ok (kept for comparison)
recovers_ok_only(outcome) == outcome = "ok"

\* match p.lock() { Ok(guard) => guard, Err(poisoned) =>
\* poisoned.into_inner() }: both arms yield the guard (reader.rs:220-226,
\* 163-169, 587-593)
recovers(outcome) == outcome \in {"ok", "poisoned"}

\* a task that looks its plot up in the reader's current table (kept for
\* comparison)
CurPlotOfTable(t) ==
    IF tasks[t].i_p \in 1..Len(drive_id_to_plots[t[2]])
    THEN drive_id_to_plots[t[2]][tasks[t].i_p]
    ELSE tasks[t].plots[tasks[t].i_p]

\* the plot a task is visiting
CurPlot(t) == tasks[t].plots[tasks[t].i_p]

\* the guards once task t has dropped the one it holds
Released(t) == [p \in PlotIds |-> IF guard[p] = t THEN NoTask ELSE guard[p]]

\* the task record once the closure has returned for the given reason: its
\* locals and its interrupt receiver are gone, the history fields stay
Ended(tk, why) ==
    [IdleTask EXCEPT !.pc = "done", !.stop = why, !.plots = tk.plots,
                     !.height = tk.height, !.scoop = tk.scoop,
                     !.withdrawn = tk.withdrawn, !.filled = tk.filled,
                     !.checked = tk.checked, !.nsent = tk.nsent,
                     !.returned = tk.returned]

\* the task record at the end of an iteration of 'inner: the buffer and the
\* tuple read are out of scope
EndInner(tk) ==
    [tk EXCEPT !.buffer = NoBuffer, !.bytes_read = 0, !.start_nonce = 0,
               !.next_plot = FALSE, !.read_ok = FALSE]

\* a task that returns when the visit of a plot ends (kept for comparison)
StopAtPlotEnd(tk) == Ended(tk, "end")

\* the task record after the visit of its current plot ended: the next
\* iteration of 'outer, or the end of the closure
NextPlot(tk) ==
    IF tk.i_p < Len(tk.plots)
    THEN [EndInner(tk) EXCEPT !.pc = "lock", !.i_p = tk.i_p + 1]
    ELSE Ended(tk, "end")

(***************************************************************************)
(* Init: the state after Reader::new                                       *)
(***************************************************************************)

Init ==
    \* plot 1 is read with direct I/O on 128-byte sectors, plot 2 is buffered
    /\ plots = [p \in PlotIds |->
                  IF p = 1 THEN NewPlot(7, 0, 3, TRUE, 128, FALSE)
                           ELSE NewPlot(7, 3, 2, FALSE, 128, FALSE)]
    /\ guard = [p \in PlotIds |-> NoTask]
    /\ drive_id_to_plots = [d \in Drives |-> <<1, 2>>]
    /\ interupts = {}
    /\ empty_buffers = <<1, 2>>
    /\ chan = [c \in Chans |-> <<>>]
    /\ connected = [c \in Chans |-> TRUE]
    /\ tasks = [t \in TaskIds |-> IdleTask]
    /\ round = 0
    /\ dropped = {}
    /\ metrics = NoMetrics
    /\ wake = [d \in Drives |-> IdleWake]
    /\ poisoned = [p \in PlotIds |-> FALSE]
    /\ overlaps = {}
    /\ total_size = 1
    /\ submitted = {}
    /\ created = <<>>

(***************************************************************************)
(* Reader::start_reading (reader.rs:81-154)                                *)
(***************************************************************************)

\* a closure born with the signal of its own start_reading pending in its
\* interrupt channel (kept for comparison)
NewTaskSignalled(d, inp) ==
    [IdleTask EXCEPT !.pc = "queued", !.i_p = 1,
                     !.plots = drive_id_to_plots[d],
                     !.height = inp.height, !.scoop = inp.scoop, !.irq = 1]

\* the closure create_read_task returns, as spawned on the pool: its
\* interrupt channel is made by create_read_task (reader.rs:207), after
\* start_reading has signalled the old senders (reader.rs:89-91)
NewTask(d, inp) ==
    [IdleTask EXCEPT !.pc = "queued", !.i_p = 1,
                     !.plots = drive_id_to_plots[d],
                     !.height = inp.height, !.scoop = inp.scoop]

\* a GPU channel that gets no round-start marker (kept for comparison)
no_round_start(q, height, r) == q

\* a GPU channel after the round-start marker was enqueued (reader.rs:99-118)
round_start(q, height, r) == Append(q, Marker(1, height, <<r, 0>>, 0))

\* a start_reading that signals no one (kept for comparison)
no_interupt_send(tk) == tk

\* interupt.send(()) to a task whose receiver exists (reader.rs:89-91): one
\* more signal is queued in its interrupt channel
interupt_send(tk) == [tk EXCEPT !.irq = @ + 1]

StartReading(inp) ==
    /\ round < MaxRounds
    /\ inp.height = 100 + round + 1
    /\ round' = round + 1
    \* for interupt in &self.interupts { interupt.send(()).ok(); }
    /\ tasks' = [t \in TaskIds |->
                   IF t \in interupts /\ tasks[t].pc # "done"
                   THEN interupt_send(tasks[t])
                   ELSE IF t[1] = round + 1 /\ t[2] \in DOMAIN drive_id_to_plots
                   THEN NewTask(t[2], inp)
                   ELSE tasks[t]]
    \* the round-start marker to every GPU channel; a send to a channel
    \* whose receiver is gone fails and is logged
    /\ \E gone \in SUBSET {c \in GpuChans : connected[c]} :
         /\ connected' = [c \in Chans |-> connected[c] /\ c \notin gone]
         /\ chan' = [c \in Chans |->
                       IF c \in GpuChans /\ connected'[c]
                       THEN round_start(chan[c], inp.height, round + 1)
                       ELSE chan[c]]
    /\ interupts' = {<<round + 1, d>> : d \in DOMAIN drive_id_to_plots}
    /\ UNCHANGED aux
    /\ UNCHANGED <<plots, guard, drive_id_to_plots, empty_buffers, dropped>>

(***************************************************************************)
(* The drive task (reader.rs:214-388)                                      *)
(***************************************************************************)

\* a pool thread picks the closure up
TaskStart(t) ==
    /\ tasks[t].pc = "queued"
    /\ Cardinality(Running) + Cardinality(WakeRunning) < num_threads
    /\ tasks' = [tasks EXCEPT ![t] =
                   IF Len(tasks[t].plots) = 0
                   THEN Ended(@, "end")
                   ELSE [@ EXCEPT !.pc = "lock"]]
    /\ UNCHANGED aux
    /\ UNCHANGED <<plots, guard, drive_id_to_plots, interupts, empty_buffers,
                   chan, connected, round, dropped>>

\* p.lock() and p.prepare(scoop) succeeding (reader.rs:220-233)
TaskPrepare(t) ==
    /\ tasks[t].pc = "lock"
    /\ recovers(lock(CurPlot(t)))
    /\ guard' = [guard EXCEPT ![CurPlot(t)] = t]
    /\ plots' = [plots EXCEPT ![CurPlot(t)] = prepare(@, tasks[t].scoop)]
    /\ tasks' = [tasks EXCEPT ![t].pc = "recv"]
    /\ UNCHANGED aux
    /\ UNCHANGED <<drive_id_to_plots, interupts, empty_buffers, chan, connected, round, dropped>>

\* p.lock() and p.prepare(scoop) failing, in open() or in the final seek:
\* continue 'outer, which drops the guard
TaskPrepareErr(t) ==
    /\ tasks[t].pc = "lock"
    /\ recovers(lock(CurPlot(t)))
    /\ \E in_open \in BOOLEAN :
         plots' = [plots EXCEPT ![CurPlot(t)] =
                     IF in_open THEN prepare_open_err(@)
                     ELSE prepare(@, tasks[t].scoop)]
    /\ tasks' = [tasks EXCEPT ![t] = NextPlot(@)]
    /\ UNCHANGED aux
    /\ UNCHANGED <<guard, drive_id_to_plots, interupts, empty_buffers, chan,
                   connected, round, dropped>>

\* a receive that leaves the buffer in the channel (kept for comparison)
recv_peek(q) == q

\* the empty_buffers channel after a receive took its head (reader.rs:235)
recv_rest(q) == Tail(q)

\* for mut buffer in rx_empty_buffers.clone(): blocks while the pool is empty
TaskRecv(t) ==
    /\ tasks[t].pc = "recv"
    /\ empty_buffers # <<>>
    /\ empty_buffers' = recv_rest(empty_buffers)
    /\ tasks' = [tasks EXCEPT ![t] =
                   [@ EXCEPT !.pc = "read", !.buffer = Head(empty_buffers),
                             !.withdrawn = @ + 1]]
    /\ UNCHANGED aux
    /\ UNCHANGED <<plots, guard, drive_id_to_plots, interupts, chan, connected, round, dropped>>

\* the tuple p.read(&mut bs, scoop) leaves in (bytes_read, start_nonce,
\* next_plot): Plot::read's own, or (0, 0, true) when it returned Err
\* (reader.rs:247-257)
ReadOutcome(pl, scoop, ok) ==
    IF ok THEN read(pl, buffer_cap, scoop)
    ELSE [bytes_read |-> read_error_tuple.bytes_read,
          start_nonce |-> read_error_tuple.start_nonce,
          next_plot |-> read_error_tuple.next_plot,
          \* the seek or read_exact failed before read_offset was advanced
          read_offset |-> pl.read_offset]

\* an interrupt check that never sees a signal (kept for comparison)
interrupt_missed(tk) == FALSE

\* rx_interupt.try_recv().is_ok() (reader.rs:259)
interrupt_seen(tk) == tk.irq > 0

\* a pool channel that the buffer is not sent to (kept for comparison)
keep_buffer(pool, b) == pool

\* tx_empty_buffers.send(buffer) (reader.rs:261): the pool channel after it
return_buffer(pool, b) == Append(pool, b)

\* One buffer fill: p.read into the buffer in hand, which succeeds or (for a
\* plot that is not a dummy) fails, and then the interrupt check.  On an
\* interrupt the buffer goes back to empty_buffers and the task ends
\* (reader.rs:259-265); otherwise the reply is built next.
TaskRead(t) ==
    /\ tasks[t].pc = "read"
    /\ \E ok \in {TRUE, plots[CurPlot(t)].dummy} :
         LET p == CurPlot(t)
             x == ReadOutcome(plots[p], tasks[t].scoop, ok)
             tk == [tasks[t] EXCEPT !.filled = @ + 1, !.checked = @ + 1,
                                    !.bytes_read = x.bytes_read,
                                    !.start_nonce = x.start_nonce,
                                    !.next_plot = x.next_plot,
                                    !.read_ok = ok]
         IN  /\ plots' = [plots EXCEPT ![p].read_offset = x.read_offset]
             /\ IF interrupt_seen(tk)
                THEN /\ empty_buffers' = return_buffer(empty_buffers, tk.buffer)
                     /\ guard' = Released(t)
                     /\ tasks' = [tasks EXCEPT ![t] =
                                    Ended([tk EXCEPT !.returned = @ + 1],
                                          "interrupt")]
                ELSE /\ empty_buffers' = empty_buffers
                     /\ guard' = guard
                     /\ tasks' = [tasks EXCEPT ![t] = [tk EXCEPT !.pc = "send"]]
    /\ UNCHANGED aux
    /\ UNCHANGED <<drive_id_to_plots, interupts, chan, connected, round,
                   dropped>>

\* the data reply is enqueued on the channel of the buffer's id
\* (reader.rs:267-327, 383-385)
TaskSend(t) ==
    /\ tasks[t].pc = "send"
    /\ LET tk == tasks[t]
           c == reply_channel(get_id(tk.buffer))
           finished == finished_flag(tk.i_p, Len(tk.plots), tk.next_plot)
       IN  /\ connected[c]
           /\ chan' = [chan EXCEPT ![c] = Append(@, DataReply(t, finished))]
           /\ IF finished
              THEN /\ tasks' = [tasks EXCEPT ![t] =
                                  [EndInner(@) EXCEPT !.pc = "signal", !.g = 1,
                                                      !.nsent = @ + 1]]
                   /\ guard' = guard
              ELSE IF tk.next_plot
              THEN /\ tasks' = [tasks EXCEPT ![t] =
                                  NextPlot([@ EXCEPT !.nsent = @ + 1])]
                   /\ guard' = Released(t)
              ELSE /\ tasks' = [tasks EXCEPT ![t] =
                                  [EndInner(@) EXCEPT !.pc = "recv",
                                                      !.nsent = @ + 1]]
                   /\ guard' = guard
    /\ UNCHANGED aux
    /\ UNCHANGED <<plots, drive_id_to_plots, interupts, empty_buffers, connected, round, dropped>>

\* a task that takes a failed send for a good one and goes on with the
\* plot (kept for comparison)
send_failure_ignored(tk) == [EndInner(tk) EXCEPT !.pc = "recv"]

\* the task record after a send failed: error!(...); break 'outer
\* (reader.rs:286-288, 305-307)
send_failed(tk) == Ended(tk, "channel")

\* the send fails because the receiver is gone: the ReadReply comes back in
\* the SendError and is destroyed with it, buffer included; break 'outer
TaskSendErr(t) ==
    /\ tasks[t].pc = "send"
    /\ connected' = [connected EXCEPT
                       ![reply_channel(get_id(tasks[t].buffer))] = FALSE]
    /\ dropped' = dropped \cup {tasks[t].buffer}
    /\ guard' = Released(t)
    /\ tasks' = [tasks EXCEPT ![t] = send_failed(@)]
    /\ UNCHANGED aux
    /\ UNCHANGED <<plots, drive_id_to_plots, interupts, empty_buffers, chan,
                   round>>

\* the drive-finished marker to GPU channel g; a failed send is logged
\* (reader.rs:349-370); after the last channel the loops end
TaskSignal(t) ==
    /\ tasks[t].pc = "signal"
    /\ LET tk == tasks[t]
       IN  /\ \E gone \in BOOLEAN :
                 /\ connected' = [connected EXCEPT ![tk.g] = @ /\ ~gone]
                 /\ chan' = [chan EXCEPT ![tk.g] =
                               IF connected'[tk.g]
                               THEN Append(@, Marker(2, tk.height, t,
                                                     tk.nsent + tk.g))
                               ELSE @]
           /\ IF tk.g + 1 \in GpuChans
              THEN /\ tasks' = [tasks EXCEPT ![t].g = @ + 1]
                   /\ guard' = guard
              ELSE /\ tasks' = [tasks EXCEPT ![t] = Ended(@, "end")]
                   /\ guard' = Released(t)
    /\ UNCHANGED aux
    /\ UNCHANGED <<plots, drive_id_to_plots, interupts, empty_buffers, round, dropped>>

(***************************************************************************)
(* The consumers (external): a hasher receives the next message of its     *)
(* channel and, for a data reply, sends the buffer back to empty_buffers.  *)
(* A consumer may go away at any time, which drops its receiver; the       *)
(* program sees that only in its next send on the channel, so the receiver *)
(* is recorded as gone (connected = FALSE) in the send that first fails.   *)
(***************************************************************************)

\* the buffers a consumer holds or has still to receive: those sent on its
\* channel that are in no task's hand, not in the pool and not destroyed
Outstanding(c) ==
    {b \in Buffers :
        /\ get_id(b) = c
        /\ b \notin dropped
        /\ \A i \in 1..Len(empty_buffers) : empty_buffers[i] # b
        /\ \A t \in TaskIds : tasks[t].buffer # b}

\* the place in the channel of the reply that carried buffer b last
LastSent(c, b) ==
    CHOOSE i \in 1..Len(chan[c]) :
        /\ chan[c][i].buffer = b
        /\ \A j \in (i + 1)..Len(chan[c]) : chan[c][j].buffer # b

\* the consumer of channel c is done with the oldest reply it has and sends
\* its buffer back (markers carry no pool buffer and need no return)
ConsumerReturn(c) ==
    /\ connected[c]
    /\ Outstanding(c) # {}
    /\ LET b == CHOOSE x \in Outstanding(c) :
                  \A y \in Outstanding(c) : LastSent(c, x) <= LastSent(c, y)
       IN  empty_buffers' = Append(empty_buffers, b)
    /\ UNCHANGED aux
    /\ UNCHANGED <<plots, guard, drive_id_to_plots, interupts, chan, connected,
                   tasks, round, dropped>>

TaskStep(t) ==
    \/ TaskStart(t)
    \/ TaskPrepare(t)
    \/ TaskPrepareErr(t)
    \/ TaskRecv(t)
    \/ TaskRead(t)
    \/ TaskSend(t)
    \/ TaskSendErr(t)
    \/ TaskSignal(t)

Next ==
    \/ \E inp \in RoundInputs : StartReading(inp)
    \/ \E t \in TaskIds : TaskStep(t)
    \/ \E c \in Chans : ConsumerReturn(c)

Spec == Init /\ [][Next]_vars

\* Scheduling: the pool runs every spawned closure, and a running closure
\* takes its next step whenever that step is possible.  Nothing obliges the
\* consumers to return buffers or start_reading to be called again.
FairSpec == Spec /\ \A t \in TaskIds : WF_vars(TaskStep(t))

(***************************************************************************)
(* A single visit: one round over a drive whose first plot has any small   *)
(* geometry, read with any of the scoops of VisitInputs.                   *)
(***************************************************************************)

VisitInit ==
    /\ \E start_nonce \in {0, 5}, nonces \in 0..MaxNonces, direct \in BOOLEAN,
          sector \in SectorSizes, dmy \in BOOLEAN :
         plots = [p \in PlotIds |->
                    IF p = 1
                    THEN NewPlot(7, start_nonce, nonces, direct, sector, dmy)
                    ELSE NewPlot(7, 20, 2, FALSE, 128, FALSE)]
    /\ guard = [p \in PlotIds |-> NoTask]
    /\ drive_id_to_plots = [d \in Drives |-> <<1, 2>>]
    /\ interupts = {}
    /\ empty_buffers = <<1, 2>>
    /\ chan = [c \in Chans |-> <<>>]
    /\ connected = [c \in Chans |-> TRUE]
    /\ tasks = [t \in TaskIds |-> IdleTask]
    /\ round = 0
    /\ dropped = {}
    /\ metrics = NoMetrics
    /\ wake = [d \in Drives |-> IdleWake]
    /\ poisoned = [p \in PlotIds |-> FALSE]
    /\ overlaps = {}
    /\ total_size = 1
    /\ submitted = {}
    /\ created = <<>>

VisitNext ==
    \/ \E inp \in VisitInputs : round = 0 /\ StartReading(inp)
    \/ \E t \in TaskIds : TaskStep(t)
    \/ \E c \in Chans : ConsumerReturn(c)

VisitSpec == VisitInit /\ [][VisitNext]_vars

\* One round over two plots of the same geometry, the first read normally
\* and the second a dummy
TwinInit ==
    /\ \E start_nonce \in {0, 5}, nonces \in 0..MaxNonces, direct \in BOOLEAN,
          sector \in SectorSizes :
         plots = [p \in PlotIds |->
                    NewPlot(7, start_nonce, nonces, direct, sector, p = 2)]
    /\ guard = [p \in PlotIds |-> NoTask]
    /\ drive_id_to_plots = [d \in Drives |-> <<1, 2>>]
    /\ interupts = {}
    /\ empty_buffers = <<1, 2>>
    /\ chan = [c \in Chans |-> <<>>]
    /\ connected = [c \in Chans |-> TRUE]
    /\ tasks = [t \in TaskIds |-> IdleTask]
    /\ round = 0
    /\ dropped = {}
    /\ metrics = NoMetrics
    /\ wake = [d \in Drives |-> IdleWake]
    /\ poisoned = [p \in PlotIds |-> FALSE]
    /\ overlaps = {}
    /\ total_size = 1
    /\ submitted = {}
    /\ created = <<>>

TwinSpec == TwinInit /\ [][VisitNext]_vars

(***************************************************************************)
(* Plot::new (plot.rs:109-175)                                             *)
(***************************************************************************)

NewErr == [result |-> "err", plot |-> <<>>]
NewPanic == [result |-> "panic", plot |-> <<>>]

\* let exp_size = nonces * NONCE_SIZE: the product in the word, and whether
\* a build with overflow checks panics on it
exp_size(nonces) ==
    [overflows |-> nonces * NONCE_SIZE >= WordModulus,
     value |-> (nonces * NONCE_SIZE) % WordModulus]

\* Plot::new: Ok(Plot), Err, or a panic
new(inp) ==
    IF ~inp.is_file THEN NewErr
    ELSE IF Len(inp.name) # 3 THEN NewErr
    ELSE IF \E i \in 1..3 : ~inp.name[i].digits THEN NewErr
    ELSE LET nonces == inp.name[3].value
         IN  IF exp_size(nonces).overflows /\ inp.overflow_checks THEN NewPanic
             ELSE IF inp.size # exp_size(nonces).value THEN NewErr
             ELSE IF ~inp.open_ok THEN NewErr
             ELSE [result |-> "ok",
                   plot |-> <<NewPlot(inp.name[1].value, inp.name[2].value,
                                      nonces, inp.use_direct_io,
                                      inp.sector_size, inp.dummy)>>]

\* a call of Plot::new by the scan of the plot directories
PlotNew(inp) ==
    /\ Len(created) < MaxCreated
    /\ created' = Append(created, [inp |-> inp, out |-> new(inp)])
    /\ UNCHANGED <<plots, guard, drive_id_to_plots, interupts, empty_buffers,
                   chan, connected, tasks, round, dropped, metrics, wake,
                   poisoned, overlaps, total_size, submitted>>

NewNext == \E inp \in NewInputs : PlotNew(inp)

NewSpec == Init /\ [][NewNext]_vars

\* the calls of Plot::new that return a plot small enough to be visited
OpenedInputs ==
    {inp \in NewInputs : /\ new(inp).result = "ok"
                         /\ inp.name[3].value <= MaxNonces
                         /\ ~inp.overflow_checks}

\* One round over a drive whose first plot is one Plot::new has returned
OpenedInit ==
    /\ \E inp \in OpenedInputs :
         /\ created = <<[inp |-> inp, out |-> new(inp)]>>
         /\ plots = [p \in PlotIds |->
                       IF p = 1 THEN new(inp).plot[1]
                       ELSE NewPlot(7, 20, 2, FALSE, 128, FALSE)]
    /\ guard = [p \in PlotIds |-> NoTask]
    /\ drive_id_to_plots = [d \in Drives |-> <<1, 2>>]
    /\ interupts = {}
    /\ empty_buffers = <<1, 2>>
    /\ chan = [c \in Chans |-> <<>>]
    /\ connected = [c \in Chans |-> TRUE]
    /\ tasks = [t \in TaskIds |-> IdleTask]
    /\ round = 0
    /\ dropped = {}
    /\ metrics = NoMetrics
    /\ wake = [d \in Drives |-> IdleWake]
    /\ poisoned = [p \in PlotIds |-> FALSE]
    /\ overlaps = {}
    /\ total_size = 1
    /\ submitted = {}

OpenedSpec == OpenedInit /\ [][VisitNext]_vars

(***************************************************************************)
(* Reader::wakeup (reader.rs:156-179): one closure per drive that locks    *)
(* the drive's first plot and seeks to a random scoop of it                *)
(***************************************************************************)

\* wakeup(): self.pool.spawn for every drive of the table.  A drive whose
\* earlier wakeup closure has not returned is left out here.
Wakeup ==
    /\ \E d \in Drives : wake[d].pc \in {"none", "done"} /\ wake[d].n < MaxWakeups
    /\ wake' = [d \in Drives |->
                  IF wake[d].pc \in {"none", "done"} /\ wake[d].n < MaxWakeups
                  THEN [pc |-> "queued", n |-> wake[d].n + 1]
                  ELSE wake[d]]
    /\ UNCHANGED <<plots, guard, drive_id_to_plots, interupts, empty_buffers,
                   chan, connected, tasks, round, dropped, metrics, poisoned,
                   overlaps, total_size, created, submitted>>

\* a pool thread picks the wakeup closure up
WakeStart(d) ==
    /\ wake[d].pc = "queued"
    /\ Cardinality(Running) + Cardinality(WakeRunning) < num_threads
    /\ wake' = [wake EXCEPT ![d].pc = "lock"]
    /\ UNCHANGED <<plots, guard, drive_id_to_plots, interupts, empty_buffers,
                   chan, connected, tasks, round, dropped, metrics, poisoned,
                   overlaps, total_size, created, submitted>>

\* plots[0].lock(), recovering from poison (reader.rs:163-169); the plot
\* list is the one wakeup() cloned, taken here as the current one
WakeLock(d) ==
    /\ wake[d].pc = "lock"
    /\ recovers(lock(drive_id_to_plots[d][1]))
    /\ guard' = [guard EXCEPT ![drive_id_to_plots[d][1]] = WakeId(d)]
    /\ wake' = [wake EXCEPT ![d].pc = "seek"]
    /\ UNCHANGED <<plots, drive_id_to_plots, interupts, empty_buffers, chan,
                   connected, tasks, round, dropped, metrics, poisoned,
                   overlaps, total_size, created, submitted>>

\* the scoops thread_rng().gen_range(0, SCOOPS_IN_NONCE) is explored with
RandScoops == {0, 1, SCOOPS_IN_NONCE - 1}

\* a seek_random that stores its rounding in the plot as prepare does (kept
\* for comparison)
seek_random_stored(pl, rand_scoop) == prepare(pl, rand_scoop)

\* Plot::seek_random (plot.rs:304-314): the address is a local, rounded down
\* to the sector under direct I/O, and only the file handle is moved to it;
\* the remainder round_seek_addr returns is discarded.  The fields of the
\* plot after the call, whether the seek returned Ok or Err:
seek_random(pl, rand_scoop) ==
    LET seek_addr == rand_scoop * pl.meta.nonces * SCOOP_SIZE
        r == IF pl.use_direct_io THEN round_seek_addr(seek_addr, pl.sector_size)
             ELSE 0
        file_position == seek_addr - r
    IN  pl

\* p.seek_random(), whose error is logged (reader.rs:171-177); the closure
\* returns and the guard is dropped
WakeSeek(d) ==
    /\ wake[d].pc = "seek"
    /\ \E rand_scoop \in RandScoops, ok \in BOOLEAN :
         plots' = [plots EXCEPT ![drive_id_to_plots[d][1]] =
                     seek_random(@, rand_scoop)]
    /\ guard' = Released(WakeId(d))
    /\ wake' = [wake EXCEPT ![d].pc = "done"]
    /\ UNCHANGED <<drive_id_to_plots, interupts, empty_buffers, chan,
                   connected, tasks, round, dropped, metrics, poisoned,
                   overlaps, total_size, created, submitted>>

WakeStep(d) == WakeStart(d) \/ WakeLock(d) \/ WakeSeek(d)

(***************************************************************************)
(* Metrics (src/src/metrics.rs)                                            *)
(***************************************************************************)

\* MinerMetrics::record_io_error(drive_id).  The drive task holds no handle
\* to the metrics and its read-error arm (reader.rs:249-256) only logs and
\* unmaps the buffer, so no action of the reader applies this.
record_io_error(m, drive_id) ==
    [m EXCEPT !.total_io_errors = @ + 1,
              !.io_errors_by_drive[drive_id] = @ + 1]

\* the accounts and deadlines submissions are recorded with; the largest
\* deadline is u64::MAX of the word
Accounts == {7, 8}
Deadlines == {0, 1, WordModulus - 1}

\* a record_submission_success that stores the latest deadline (kept for
\* comparison)
latest_deadline(best, account_id, deadline) ==
    (account_id :> deadline) @@ best

\* let current_best = best_deadlines.entry(account_id).or_insert(u64::MAX);
\* if deadline < *current_best { *current_best = deadline; }
better_deadline(best, account_id, deadline) ==
    LET current_best == IF account_id \in DOMAIN best THEN best[account_id]
                        ELSE WordModulus - 1
    IN  (account_id :> IF deadline < current_best THEN deadline
                       ELSE current_best) @@ best

record_submission_success(m, account_id, deadline) ==
    [m EXCEPT !.total_submissions = @ + 1,
              !.successful_submissions = @ + 1,
              !.last_submission = TRUE,
              !.best_deadlines = better_deadline(@, account_id, deadline)]

record_submission_failure(m) ==
    [m EXCEPT !.total_submissions = @ + 1, !.failed_submissions = @ + 1]

record_round_complete(m, duration_ms) ==
    [m EXCEPT !.rounds_completed = @ + 1,
              !.avg_round_time_ms = Append(@, duration_ms)]

record_round_failure(m) == [m EXCEPT !.rounds_failed = @ + 1]

record_network_error(m) == [m EXCEPT !.network_errors = @ + 1]

record_config_error(m) == [m EXCEPT !.config_errors = @ + 1]

record_bytes_read(m, bytes) == [m EXCEPT !.total_bytes_read = @ + bytes]

\* io_error_rate > pct, for io_error_rate as health_status computes it in
\* f64: 0.0 when nothing was read; else errors / (bytes / 1024 / 1024) x 100
\* with the integer quotient as divisor, which is +inf for errors > 0 and
\* NaN (never greater) for errors = 0 when less than one MiB was read
io_error_rate_exceeds(m, pct) ==
    IF m.total_bytes_read = 0 THEN FALSE
    ELSE LET mib == m.total_bytes_read \div MiB
         IN  IF mib = 0 THEN m.total_io_errors > 0
             ELSE m.total_io_errors * 100 > pct * mib

\* round_success_rate() < 100 - pct, i.e. round_failure_rate > pct for
\* round_failure_rate = 100.0 - round_success_rate(), which is 0.0 when no
\* round was recorded and completed / total x 100 otherwise
round_failure_rate_exceeds(m, pct) ==
    LET total_rounds == m.rounds_completed + m.rounds_failed
    IN  IF total_rounds = 0 THEN 100 > pct
        ELSE 100 * total_rounds - 100 * m.rounds_completed > pct * total_rounds

\* MinerMetrics::health_status
health_status(m) ==
    IF \/ io_error_rate_exceeds(m, 5)
       \/ round_failure_rate_exceeds(m, 20)
       \/ m.network_errors > 100
    THEN "CRITICAL"
    ELSE IF \/ io_error_rate_exceeds(m, 1)
            \/ round_failure_rate_exceeds(m, 10)
            \/ m.network_errors > 50
    THEN "WARNING"
    ELSE "HEALTHY"

\* the record_* calls made so far, those of record_bytes_read apart
Recorded(m) ==
    m.total_submissions + m.rounds_completed + m.rounds_failed
    + m.total_io_errors + m.network_errors + m.config_errors

\* what the callers of the metrics leave unchanged
MetricsFrame ==
    UNCHANGED <<plots, guard, drive_id_to_plots, interupts, empty_buffers,
                chan, connected, tasks, round, dropped, wake, poisoned,
                overlaps, total_size, created>>

RecordSubmissionSuccess(account_id, deadline) ==
    /\ Recorded(metrics) < MaxRecords
    /\ metrics' = record_submission_success(metrics, account_id, deadline)
    /\ submitted' = submitted \cup {<<account_id, deadline>>}
    /\ MetricsFrame

RecordSubmissionFailure ==
    /\ Recorded(metrics) < MaxRecords
    /\ metrics' = record_submission_failure(metrics)
    /\ UNCHANGED submitted
    /\ MetricsFrame

RecordRoundComplete(duration_ms) ==
    /\ Recorded(metrics) < MaxRecords
    /\ metrics' = record_round_complete(metrics, duration_ms)
    /\ UNCHANGED submitted
    /\ MetricsFrame

RecordRoundFailure ==
    /\ Recorded(metrics) < MaxRecords
    /\ metrics' = record_round_failure(metrics)
    /\ UNCHANGED submitted
    /\ MetricsFrame

RecordIoError(drive_id) ==
    /\ Recorded(metrics) < MaxRecords
    /\ metrics' = record_io_error(metrics, drive_id)
    /\ UNCHANGED submitted
    /\ MetricsFrame

RecordNetworkError ==
    /\ Recorded(metrics) < MaxRecords
    /\ metrics' = record_network_error(metrics)
    /\ UNCHANGED submitted
    /\ MetricsFrame

RecordConfigError ==
    /\ Recorded(metrics) < MaxRecords
    /\ metrics' = record_config_error(metrics)
    /\ UNCHANGED submitted
    /\ MetricsFrame

RecordBytesRead(bytes) ==
    /\ metrics.total_bytes_read + bytes <= MaxMiB * MiB
    /\ metrics' = record_bytes_read(metrics, bytes)
    /\ UNCHANGED submitted
    /\ MetricsFrame

MetricsNext ==
    \/ \E a \in Accounts, d \in Deadlines : RecordSubmissionSuccess(a, d)
    \/ RecordSubmissionFailure
    \/ RecordRoundComplete(1000)
    \/ RecordRoundFailure
    \/ \E d \in Drives : RecordIoError(d)
    \/ RecordNetworkError
    \/ RecordConfigError
    \/ \E bytes \in {MiB - 1, MiB} : RecordBytesRead(bytes)

MetricsSpec == Init /\ [][MetricsNext]_vars

(***************************************************************************)
(* Overlap validation: Meta::overlaps_with (plot.rs:35-51), check_overlap  *)
(* (reader.rs:575-611) and Reader::update_plots (reader.rs:181-192)        *)
(***************************************************************************)

Min(a, b) == IF a <= b THEN a ELSE b

Max(a, b) == IF a >= b THEN a ELSE b

\* Meta::overlaps_with: what it returns, and the count it logs when true.
\* The two sums are u64 additions: result and overlap are those of a build
\* that wraps them, and panics tells whether a build with overflow checks
\* panics in the call.  The condition is an &&, so the second sum is only
\* computed when the first comparison holds.
overlaps_with(self, other) ==
    LET other_end == other.start_nonce + other.nonces
        self_end == self.start_nonce + self.nonces
        first == self.start_nonce < other_end % WordModulus
        second == other.start_nonce < self_end % WordModulus
        panics == \/ other_end >= WordModulus
                  \/ (self.start_nonce < other_end /\ self_end >= WordModulus)
    IN  IF first /\ second
        THEN [result |-> TRUE,
              overlap |-> (Min(other_end % WordModulus, self_end % WordModulus)
                           - Max(self.start_nonce, other.start_nonce))
                          % WordModulus,
              panics |-> panics]
        ELSE [result |-> FALSE, overlap |-> 0, panics |-> panics]

\* the Metas check_overlap collects from a drive table, in order (the table
\* has the one drive of Drives)
collect_metas(tbl) ==
    [i \in 1..Len(tbl[1]) |-> plots[tbl[1][i]].meta]

\* the calls of overlaps_with check_overlap makes: plot_b.overlaps_with(
\* plot_a) for every plot_a and every later plot_b of the same account
check_overlap_calls(tbl) ==
    LET ms == collect_metas(tbl)
    IN  {[self |-> ms[j], other |-> ms[i],
          result |-> overlaps_with(ms[j], ms[i]).result,
          overlap |-> overlaps_with(ms[j], ms[i]).overlap,
          panics |-> overlaps_with(ms[j], ms[i]).panics] :
            <<i, j>> \in {x \in (1..Len(ms)) \X (1..Len(ms)) :
                            /\ x[1] < x[2]
                            /\ ms[x[1]].account_id = ms[x[2]].account_id}}

\* check_overlap: some plot overlaps a later one
check_overlap(tbl) == \E c \in check_overlap_calls(tbl) : c.result

\* check_overlap in a build with overflow checks: a panic of one of its
\* calls is carried out of the parallel iterator
check_overlap_panics(tbl) == \E c \in check_overlap_calls(tbl) : c.panics

\* an update_plots that validates in benchmark mode too (kept for
\* comparison)
validates_always(benchmark) == TRUE

\* if !benchmark { check_overlap(..) }
validates(benchmark) == ~benchmark

\* Reader::update_plots: outside benchmark mode the new table is checked for
\* overlaps, which locks every plot of it in turn, and then the table and
\* the total size replace the old ones
UpdatePlots(tbl, size, benchmark) ==
    /\ validates(benchmark) => \A d \in DOMAIN tbl : \A i \in 1..Len(tbl[d]) :
                                  recovers(lock(tbl[d][i]))
    /\ overlaps' = IF validates(benchmark)
                   THEN overlaps \cup check_overlap_calls(tbl)
                   ELSE overlaps
    /\ drive_id_to_plots' = tbl
    /\ total_size' = size
    /\ UNCHANGED <<plots, guard, interupts, empty_buffers, chan, connected,
                   tasks, round, dropped, metrics, wake, poisoned, created,
                   submitted>>

\* Overlap validation alone: two plots with any small Metas, and update_plots
\* called with the tables of Tables
MetaInit ==
    /\ \E a1, a2 \in {7, 8}, s1, s2 \in 0..MaxStart, n1, n2 \in 0..MaxMetaNonces :
         plots = [p \in PlotIds |->
                    IF p = 1 THEN NewPlot(a1, s1, n1, FALSE, 128, FALSE)
                             ELSE NewPlot(a2, s2, n2, FALSE, 128, FALSE)]
    /\ guard = [p \in PlotIds |-> NoTask]
    /\ drive_id_to_plots = [d \in Drives |-> <<1, 2>>]
    /\ interupts = {}
    /\ empty_buffers = <<1, 2>>
    /\ chan = [c \in Chans |-> <<>>]
    /\ connected = [c \in Chans |-> TRUE]
    /\ tasks = [t \in TaskIds |-> IdleTask]
    /\ round = 0
    /\ dropped = {}
    /\ metrics = NoMetrics
    /\ wake = [d \in Drives |-> IdleWake]
    /\ poisoned = [p \in PlotIds |-> FALSE]
    /\ overlaps = {}
    /\ total_size = 1
    /\ submitted = {}
    /\ created = <<>>

MetaNext ==
    \E seq \in Tables, size \in TotalSizes, benchmark \in BOOLEAN :
        UpdatePlots([d \in Drives |-> seq], size, benchmark)

MetaSpec == MetaInit /\ [][MetaNext]_vars

\* the start nonces of the ends of the word
WideStarts == {0, 1, WordModulus - 2, WordModulus - 1}

\* Overlap validation over the whole word: two plots whose Metas lie at
\* either end of it, and check_overlap called on the tables of Tables
WideMetaInit ==
    /\ \E a1, a2 \in {7, 8}, s1, s2 \in WideStarts, n1, n2 \in 0..MaxMetaNonces :
         plots = [p \in PlotIds |->
                    IF p = 1 THEN NewPlot(a1, s1, n1, FALSE, 128, FALSE)
                             ELSE NewPlot(a2, s2, n2, FALSE, 128, FALSE)]
    /\ guard = [p \in PlotIds |-> NoTask]
    /\ drive_id_to_plots = [d \in Drives |-> <<1, 2>>]
    /\ interupts = {}
    /\ empty_buffers = <<1, 2>>
    /\ chan = [c \in Chans |-> <<>>]
    /\ connected = [c \in Chans |-> TRUE]
    /\ tasks = [t \in TaskIds |-> IdleTask]
    /\ round = 0
    /\ dropped = {}
    /\ metrics = NoMetrics
    /\ wake = [d \in Drives |-> IdleWake]
    /\ poisoned = [p \in PlotIds |-> FALSE]
    /\ overlaps = {}
    /\ total_size = 1
    /\ submitted = {}
    /\ created = <<>>

\* a call of check_overlap on a drive table: the calls of overlaps_with it
\* makes, and nothing of the reader changed
CheckOverlap(tbl) ==
    /\ overlaps' = overlaps \cup check_overlap_calls(tbl)
    /\ UNCHANGED <<plots, guard, drive_id_to_plots, interupts, empty_buffers,
                   chan, connected, tasks, round, dropped, metrics, wake,
                   poisoned, total_size, created, submitted>>

WideMetaNext == \E seq \in Tables : CheckOverlap([d \in Drives |-> seq])

WideMetaSpec == WideMetaInit /\ [][WideMetaNext]_vars

(***************************************************************************)
(* Guards: rounds of drive tasks together with wakeup closures and         *)
(* update_plots, over plots whose Mutex an earlier panic may have poisoned *)
(***************************************************************************)

GuardInit ==
    /\ plots = [p \in PlotIds |->
                  IF p = 1 THEN NewPlot(7, 0, 3, TRUE, 128, FALSE)
                           ELSE NewPlot(7, 3, 2, FALSE, 128, FALSE)]
    /\ guard = [p \in PlotIds |-> NoTask]
    /\ drive_id_to_plots = [d \in Drives |-> <<1, 2>>]
    /\ interupts = {}
    /\ empty_buffers = <<1, 2>>
    /\ chan = [c \in Chans |-> <<>>]
    /\ connected = [c \in Chans |-> TRUE]
    /\ tasks = [t \in TaskIds |-> IdleTask]
    /\ round = 0
    /\ dropped = {}
    /\ metrics = NoMetrics
    /\ wake = [d \in Drives |-> IdleWake]
    /\ poisoned \in [PlotIds -> BOOLEAN]
    /\ overlaps = {}
    /\ total_size = 1
    /\ submitted = {}
    /\ created = <<>>

\* update_plots is given the table a rescan of unchanged directories finds
GuardNext ==
    \/ Next
    \/ Wakeup
    \/ \E d \in Drives : WakeStep(d)
    \/ UpdatePlots(drive_id_to_plots, total_size, FALSE)

GuardSpec == GuardInit /\ [][GuardNext]_vars

(***************************************************************************)
(* Leftovers: rounds of drive tasks and wakeup closures in a reader whose   *)
(* earlier round lost buffer 2 in a failed send to the GPU channel, the    *)
(* state TaskSendErr leaves once its task has returned and the consumer of *)
(* the CPU channel has sent buffer 1 back.  The pool runs every closure,   *)
(* and the consumers return every buffer they receive.                     *)
(***************************************************************************)

LeftoverInit ==
    /\ plots = [p \in PlotIds |->
                  IF p = 1 THEN NewPlot(7, 0, 3, TRUE, 128, FALSE)
                           ELSE NewPlot(7, 3, 2, FALSE, 128, FALSE)]
    /\ guard = [p \in PlotIds |-> NoTask]
    /\ drive_id_to_plots = [d \in Drives |-> <<1, 2>>]
    /\ interupts = {}
    /\ empty_buffers = <<1>>
    /\ chan = [c \in Chans |-> <<>>]
    /\ connected = [c \in Chans |-> c \notin GpuChans]
    /\ tasks = [t \in TaskIds |-> IdleTask]
    /\ round = 0
    /\ dropped = {2}
    /\ metrics = NoMetrics
    /\ wake = [d \in Drives |-> IdleWake]
    /\ poisoned = [p \in PlotIds |-> FALSE]
    /\ overlaps = {}
    /\ total_size = 1
    /\ submitted = {}
    /\ created = <<>>

LeftoverNext ==
    \/ Next
    \/ Wakeup
    \/ \E d \in Drives : WakeStep(d)

LeftoverSpec ==
    /\ LeftoverInit /\ [][LeftoverNext]_vars
    /\ \A t \in TaskIds : WF_vars(TaskStep(t))
    /\ \A d \in Drives : WF_vars(WakeStep(d))
    /\ \A c \in Chans : WF_vars(ConsumerReturn(c))

(***************************************************************************)
(* Rescans: rounds of drive tasks with update_plots called at any moment,  *)
(* in either mode, with any table of Tables                                *)
(***************************************************************************)

TableNext ==
    \/ Next
    \/ \E seq \in Tables, benchmark \in BOOLEAN :
          UpdatePlots([d \in Drives |-> seq], total_size, benchmark)

TableSpec == Init /\ [][TableNext]_vars

(***************************************************************************)
(* What the channels have carried                                          *)
(***************************************************************************)

\* every message enqueued on a reply channel so far
AllMsgs == UNION {{chan[c][i] : i \in 1..Len(chan[c])} : c \in Chans}

\* the messages task t enqueued, markers included
MsgsOf(t) == {m \in AllMsgs : m.task = t}

\* the data replies task t enqueued, on whatever channel
DataReplies(t) == {m \in AllMsgs : m.gpu_signal = 0 /\ m.task = t}

\* the data replies task t enqueued while visiting plot p
VisitReplies(t, p) == {m \in DataReplies(t) : m.plot = p}

\* the places in channel c of the markers of kind sig sent by who
Markers(c, sig, who) ==
    {i \in 1..Len(chan[c]) :
        chan[c][i].gpu_signal = sig /\ chan[c][i].task = who}

RECURSIVE SumLen(_)
\* the sum of len over a set of replies
SumLen(S) ==
    IF S = {} THEN 0
    ELSE LET m == CHOOSE x \in S : TRUE IN m.len + SumLen(S \ {m})

\* 1 while the task holds a buffer, 0 otherwise
InHand(t) == IF tasks[t].buffer = NoBuffer THEN 0 ELSE 1

\* the visit of plot p by task t ran to the end of the scoop region: its
\* last read returned Ok with the flag that ends the visit
VisitComplete(t, p) == \E m \in VisitReplies(t, p) : m.ok /\ m.last

\* the nonces a reply covers: [start_nonce, start_nonce + len/64)
NonceRange(m) == m.start_nonce .. (m.start_nonce + m.len \div 64 - 1)

(***************************************************************************)
(* Properties                                                              *)
(***************************************************************************)

\* C1: every buffer a drive task received from empty_buffers was afterwards
\* sent in a ReadReply or sent back to empty_buffers, or is still in the
\* task's hand: none is dropped.  Fails: when the send of a reply fails the
\* reply is destroyed with the buffer in it (reader.rs:286-288, 305-307).
C1_NoBufferDropped ==
    \A t \in TaskIds :
        tasks[t].withdrawn = tasks[t].nsent + tasks[t].returned + InHand(t)

\* C2: a drive task that ran to its end without being interrupted emitted
\* exactly one data reply with finished = TRUE, and that reply is the last
\* data reply it emitted.  Fails: when prepare of the drive's last plot
\* fails the task continues past it and ends without a finished reply
\* (reader.rs:227-233).
C2_ExactlyOneFinished ==
    \A t \in TaskIds :
        (tasks[t].stop = "end" /\ Len(tasks[t].plots) > 0)
        => LET F == {m \in DataReplies(t) : m.finished}
           IN  /\ Cardinality(F) = 1
               /\ \A m \in F : m.seq = tasks[t].nsent

\* C3 as stated: a task that start_reading has sent an interrupt to
\* eventually terminates, whatever the consumers do.  Fails: the task
\* waits in the receive on empty_buffers (reader.rs:235) and looks at its
\* interrupt channel only after a buffer has arrived and been filled.
C3_InterruptedTerminates ==
    \A t \in TaskIds : (tasks[t].irq > 0) ~> (tasks[t].pc = "done")

\* C3: provided no drive task waits for ever for a buffer from
\* empty_buffers, a task that start_reading has sent an interrupt to
\* eventually terminates.
C3_TerminatesGivenBuffers ==
    (\A u \in TaskIds : []<>(tasks[u].pc # "recv"))
    => (\A t \in TaskIds : (tasks[t].irq > 0) ~> (tasks[t].pc = "done"))

\* C3, reached: the first round's task ended at its interrupt check after
\* the second start_reading
C3_Witness ==
    \E d \in Drives :
        /\ round = 2
        /\ tasks[<<1, d>>].stop = "interrupt"
        /\ tasks[<<2, d>>].pc # "none"

\* C4: at any time at most one task is in a read of a plot of a given drive.
\* Fails: start_reading spawns the new round's task at once, and only the
\* per-plot guard separates it from the previous round's task, which may be
\* reading a later plot of the drive (reader.rs:120-153, 220-226).
C4_OneReaderPerDrive ==
    \A d \in Drives :
        Cardinality({t \in TaskIds : t[2] = d /\ tasks[t].pc = "read"}) <= 1

\* C5: on every GPU channel, each start_reading call enqueued its round-start
\* marker (gpu_signal = 1) at most once, and exactly once if the channel's
\* receiver still exists; and every data reply on the channel comes after a
\* round-start marker carrying the same height.
C5_RoundStartMarker ==
    \A c \in GpuChans :
        /\ \A r \in 1..MaxRounds :
             LET M == Markers(c, 1, <<r, 0>>)
             IN  /\ Cardinality(M) <= 1
                 /\ r > round => M = {}
                 /\ (r <= round /\ connected[c]) => Cardinality(M) = 1
        /\ \A i \in 1..Len(chan[c]) :
             chan[c][i].gpu_signal = 0
             => \E j \in 1..(i - 1) :
                   /\ chan[c][j].gpu_signal = 1
                   /\ chan[c][j].height = chan[c][i].height

\* C5, reached: a GPU channel carries a data reply of the second round
C5_Witness ==
    \E c \in GpuChans : \E i \in 1..Len(chan[c]) :
        chan[c][i].gpu_signal = 0 /\ chan[c][i].task[1] = 2

\* C6: for a drive task that ran to its end without being interrupted, every
\* GPU channel whose receiver exists carries exactly one drive-finished
\* marker (gpu_signal = 2) of the task, sent right after the task's
\* finished = TRUE reply and placed after all the task's data replies.
\* Fails with C2: a task whose last plot fails in prepare sends neither the
\* finished reply nor the markers (reader.rs:227-233, 349-370).
C6_DriveFinishedMarker ==
    \A t \in TaskIds :
        (tasks[t].stop = "end" /\ Len(tasks[t].plots) > 0)
        => \A c \in GpuChans :
             connected[c]
             => LET M == Markers(c, 2, t)
                IN  /\ Cardinality(M) = 1
                    /\ \E m \in DataReplies(t) :
                          m.finished /\ m.seq = tasks[t].nsent
                    /\ \A i \in M :
                          /\ chan[c][i].seq > tasks[t].nsent
                          /\ \A j \in 1..Len(chan[c]) :
                                chan[c][j] \in DataReplies(t) => j < i

\* C7 as stated: a task of a drive [P1, P2] that is interrupted after it
\* has dispatched P1's last buffer, when it stands before P2's guard, ends
\* without preparing P2.  Fails: the task looks at its interrupt channel
\* only after a read (reader.rs:259), so it first prepares P2.
C7_ExitsBeforeNextPlot ==
    [][\A t \in TaskIds :
          (/\ tasks[t].irq > 0
           /\ tasks[t].pc = "lock"
           /\ tasks[t].i_p = 2
           /\ tasks[t].nsent > 0)
          => tasks'[t].pc \in {"lock", "done"}]_vars

\* C7: a task that has an interrupt waiting while it stands before a plot's
\* guard, waits for a buffer or reads still prepares the plot, takes one
\* buffer and reads the plot into it once; at the check after that read it
\* sends the buffer back to empty_buffers and ends.  From the interrupt on
\* it enqueues no message: no reply of the plot, no finished = TRUE reply.
C7_OneReadThenExit ==
    [][\A t \in TaskIds :
          (tasks[t].irq > 0 /\ tasks[t].pc \in {"lock", "recv", "read"})
          => /\ MsgsOf(t)' = MsgsOf(t)
             /\ tasks[t].pc = "lock"
                => tasks'[t].pc \in {"lock", "recv", "done"}
             /\ tasks[t].pc = "recv"
                => tasks'[t].pc \in {"recv", "read"}
             /\ tasks[t].pc = "read"
                => \/ tasks'[t].pc = "read"
                   \/ /\ tasks'[t].stop = "interrupt"
                      /\ empty_buffers' =
                           Append(empty_buffers, tasks[t].buffer)]_vars

\* C7, reached: a task with an interrupt waiting reads P2 after it has
\* dispatched P1's buffer
C7_Witness ==
    \E t \in TaskIds :
        /\ tasks[t].irq > 0
        /\ tasks[t].pc = "read"
        /\ tasks[t].i_p = 2
        /\ tasks[t].nsent > 0

\* C8: a drive task has checked its interrupt channel once for every buffer
\* it has read into, and it reads into every buffer it receives; a reply is
\* dispatched only after the check of its buffer; a task that finds an
\* interrupt at the check sends the buffer in hand back to empty_buffers and
\* enqueues nothing in that step or later.
C8_CheckAfterEachFill ==
    [][\A t \in TaskIds :
          LET a == tasks[t]
              b == tasks'[t]
          IN  /\ b.checked = b.filled
              /\ b.filled = b.withdrawn - (IF b.pc = "read" THEN 1 ELSE 0)
              /\ b.nsent > a.nsent
                 => /\ a.pc = "send"
                    /\ b.nsent = a.nsent + 1
                    /\ a.checked = a.nsent + 1
              /\ (a.pc = "read" /\ a.irq > 0 /\ b.pc # "read")
                 => b.stop = "interrupt"
              /\ (a.stop = "none" /\ b.stop = "interrupt")
                 => /\ a.pc = "read" /\ a.irq > 0
                    /\ b.returned = 1
                    /\ empty_buffers' = Append(empty_buffers, a.buffer)
                    /\ chan' = chan
              /\ a.stop = "interrupt"
                 => b = a /\ MsgsOf(t)' = MsgsOf(t)]_vars

\* C8, reached: a task that had dispatched a reply ended at an interrupt
\* check and sent its buffer back
C8_Witness ==
    \E t \in TaskIds :
        /\ tasks[t].stop = "interrupt"
        /\ tasks[t].nsent > 0
        /\ tasks[t].returned = 1

\* C9: for every plot whose visit ran to the end of the scoop region, the
\* sum of len over the visit's data replies is nonces x 64 - tail, with
\* tail = 0 under buffered I/O and 0 <= tail < sector_size under direct I/O.
C9_BytesEmitted ==
    \A t \in TaskIds, p \in PlotIds :
        VisitComplete(t, p)
        => LET tail == plots[p].meta.nonces * 64 - SumLen(VisitReplies(t, p))
           IN  IF plots[p].use_direct_io
               THEN 0 <= tail /\ tail < plots[p].sector_size
               ELSE tail = 0

\* C9, reached: a visit under direct I/O that took several reads and left a
\* tail unread
C9_Witness ==
    \E t \in TaskIds, p \in PlotIds :
        /\ VisitComplete(t, p)
        /\ plots[p].use_direct_io
        /\ Cardinality(VisitReplies(t, p)) >= 2
        /\ SumLen(VisitReplies(t, p)) < plots[p].meta.nonces * 64

\* C10: for every plot whose visit ran to the end of the scoop region, the
\* nonce ranges of the visit's data replies are pairwise disjoint and their
\* union is {start_nonce + scoop x nonces + k : 0 <= k < emitted_bytes/64}.
C10_NonceRanges ==
    \A t \in TaskIds, p \in PlotIds :
        VisitComplete(t, p)
        => LET R == VisitReplies(t, p)
               base == plots[p].meta.start_nonce
                       + tasks[t].scoop * plots[p].meta.nonces
           IN  /\ \A m, n \in R :
                     m # n => NonceRange(m) \cap NonceRange(n) = {}
               /\ UNION {NonceRange(m) : m \in R}
                  = {base + k : k \in 0..(SumLen(R) \div 64 - 1)}

\* C10, reached: a visit of three reads with a scoop other than 0
C10_Witness ==
    \E t \in TaskIds, p \in PlotIds :
        /\ VisitComplete(t, p)
        /\ tasks[t].scoop > 0
        /\ Cardinality(VisitReplies(t, p)) >= 3

\* the place of plot p in the plot list of task t
PlotIndex(t, p) ==
    CHOOSE i \in 1..Len(tasks[t].plots) : tasks[t].plots[i] = p

\* C11 as stated: within one drive task the replies of a plot carry
\* increasing start_nonce values in emission order, the reply emitted after
\* a read error included, and the plots are visited in list order.  Fails:
\* the reply sent after a failed read carries start_nonce 0
\* (reader.rs:247-257), below that of the replies before it.
C11_StartNonceIncreasing ==
    \A t \in TaskIds : \A m, n \in DataReplies(t) :
        m.seq < n.seq
        => /\ PlotIndex(t, m.plot) <= PlotIndex(t, n.plot)
           /\ m.plot = n.plot => m.start_nonce < n.start_nonce

\* C11: within one drive task the replies of a plot whose read returned Ok
\* carry strictly increasing start_nonce values in emission order, and the
\* plots are visited in list order; the one reply emitted after a read error
\* is the last of its plot and carries start_nonce 0 and len 0.
C11_StartNonceIncreasingOk ==
    \A t \in TaskIds : \A m, n \in DataReplies(t) :
        /\ m.seq < n.seq
           => /\ PlotIndex(t, m.plot) <= PlotIndex(t, n.plot)
              /\ m.plot = n.plot
                 => /\ m.ok /\ ~m.last
                    /\ n.ok => m.start_nonce < n.start_nonce
        /\ ~m.ok => m.start_nonce = 0 /\ m.len = 0 /\ m.last

\* C11, reached: a reply sent after a read error follows two replies of
\* the same plot, and a reply of the next plot follows it
C11_Witness ==
    \E t \in TaskIds : \E k, m, n, o \in DataReplies(t) :
        /\ k.plot = m.plot /\ m.plot = n.plot
        /\ k.seq < m.seq /\ m.seq < n.seq /\ n.seq < o.seq
        /\ ~n.ok
        /\ o.plot # n.plot

\* the nonces of a Meta: the half-open interval [start_nonce, start_nonce + nonces)
MetaInterval(m) == m.start_nonce .. (m.start_nonce + m.nonces - 1)

\* C12: for two Metas of one account, overlaps_with returns true exactly
\* when their nonce intervals intersect, plots of no nonces included, and
\* the count it reports is min(a.end, b.end) - max(a.start, b.start).
\* Fails: for a Meta with nonces = 0 whose start_nonce lies strictly inside
\* the other's interval both comparisons of plot.rs:36-37 hold, so the
\* function returns true and reports 0 shared nonces.
C12_OverlapsIffIntersect ==
    \A c \in overlaps :
        /\ c.result <=> (MetaInterval(c.self) \cap MetaInterval(c.other) # {})
        /\ c.result
           => c.overlap = Min(c.self.start_nonce + c.self.nonces,
                              c.other.start_nonce + c.other.nonces)
                          - Max(c.self.start_nonce, c.other.start_nonce)

\* C13: while a task visits a plot it has prepared, a direct-I/O plot has
\* seek_base a multiple of sector_size, 0 <= align_offset < sector_size and
\* seek_base + align_offset = scoop x nonces x 64; a buffered plot has
\* align_offset = 0 and seek_base = scoop x nonces x 64.
C13_PrepareAlignsDown ==
    \A t \in TaskIds :
        tasks[t].pc \in {"recv", "read", "send"}
        => LET pl == plots[CurPlot(t)]
               addr == tasks[t].scoop * pl.meta.nonces * 64
           IN  IF pl.use_direct_io
               THEN /\ pl.seek_base % pl.sector_size = 0
                    /\ 0 <= pl.align_offset
                    /\ pl.align_offset < pl.sector_size
                    /\ pl.seek_base + pl.align_offset = addr
               ELSE pl.align_offset = 0 /\ pl.seek_base = addr

\* C13, reached: a prepared direct-I/O plot whose scoop region does not
\* start on a sector boundary
C13_Witness ==
    \E t \in TaskIds :
        /\ tasks[t].pc = "recv"
        /\ plots[CurPlot(t)].use_direct_io
        /\ plots[CurPlot(t)].align_offset > 0
        /\ plots[CurPlot(t)].seek_base > 0

\* C14: under direct I/O every read of Plot::read starts at a file offset
\* that is a multiple of sector_size, and the first read of a visit starts
\* at seek_base.  Fails: Plot::read seeks to seek_base + align_offset +
\* read_offset (plot.rs:246-249), which is the unaligned start of the scoop
\* region whenever prepare had to round the address down.
C14_ReadsSectorAligned ==
    \A t \in TaskIds :
        (/\ tasks[t].pc = "read"
         /\ plots[CurPlot(t)].use_direct_io
         /\ ~plots[CurPlot(t)].dummy)
        => LET pl == plots[CurPlot(t)]
           IN  /\ read_seek_addr(pl) % pl.sector_size = 0
               /\ pl.read_offset = 0 => read_seek_addr(pl) = pl.seek_base

\* C15: the start_nonce of a reply whose read returned Ok is
\* meta.start_nonce + scoop x nonces + (bytes the visit emitted before) / 64,
\* whatever align_offset and sector_size are; so the first reply of a visit
\* carries meta.start_nonce + scoop x nonces under direct and buffered I/O.
C15_StartNonceIgnoresAlignment ==
    \A t \in TaskIds, p \in PlotIds : \A m \in VisitReplies(t, p) :
        m.ok
        => m.start_nonce
           = plots[p].meta.start_nonce + tasks[t].scoop * plots[p].meta.nonces
             + SumLen({n \in VisitReplies(t, p) : n.seq < m.seq}) \div 64

\* C15, reached: the first reply of a visit of a direct-I/O plot whose
\* address was rounded down by a nonce or more
C15_Witness ==
    \E t \in TaskIds, p \in PlotIds : \E m \in VisitReplies(t, p) :
        /\ m.ok
        /\ \A n \in VisitReplies(t, p) : n.seq >= m.seq
        /\ plots[p].use_direct_io
        /\ plots[p].align_offset >= 64

\* C16: when prepare fails for a plot, or a read fails and its (empty) reply
\* has been sent, the task goes on to the next plot of its list, if there
\* is one, and does not return; after the last plot it ends as it does
\* after any last plot.
C16_FailureSkipsOnePlot ==
    [][\A t \in TaskIds :
          LET a == tasks[t]
              b == tasks'[t]
              more == a.i_p < Len(a.plots)
              prepare_failed == /\ a.pc = "lock"
                                /\ b.pc # "recv"
                                /\ (b.pc # "lock" \/ b.i_p # a.i_p)
              read_failed == /\ a.pc = "send"
                             /\ ~a.read_ok
                             /\ b.nsent = a.nsent + 1
          IN  /\ prepare_failed
                 => IF more
                    THEN b.pc = "lock" /\ b.i_p = a.i_p + 1 /\ b.stop = "none"
                    ELSE b.stop = "end"
              /\ read_failed
                 => IF more
                    THEN b.pc = "lock" /\ b.i_p = a.i_p + 1 /\ b.stop = "none"
                    ELSE b.pc = "signal"]_vars

\* C16, reached: a task whose read of its first plot failed has sent a reply
\* of a successful read of its second plot
C16_Witness ==
    \E t \in TaskIds : \E m, n \in DataReplies(t) :
        /\ PlotIndex(t, m.plot) = 1 /\ ~m.ok
        /\ PlotIndex(t, n.plot) = 2 /\ n.ok /\ n.len > 0

\* C17: each read error a drive task meets adds one to the I/O error counter
\* of its drive in the metrics.  Fails: the read-error arm of the task
\* (reader.rs:249-256) does not call record_io_error, and nothing else
\* learns of the error.
C17_ReadErrorCounted ==
    [][\A t \in TaskIds :
          (/\ tasks[t].pc = "read"
           /\ tasks'[t].pc = "send"
           /\ ~tasks'[t].read_ok)
          => metrics' = record_io_error(metrics, t[2])]_vars

\* C18: the step in which the send of a data reply fails ends the task: it
\* enqueues nothing, and from then on the task reads nothing, sends no reply
\* and no drive-finished marker.
C18_SendFailureEndsTask ==
    [][\A t \in TaskIds :
          LET a == tasks[t]
              b == tasks'[t]
          IN  /\ (a.pc = "send" /\ a.buffer \in dropped')
                 => /\ b.pc = "done" /\ b.stop = "channel"
                    /\ chan' = chan
                    /\ plots' = plots
              /\ a.stop = "channel"
                 => /\ b = a
                    /\ MsgsOf(t)' = MsgsOf(t)]_vars

\* C18, reached: a task that had sent a reply ended at a failed send
C18_Witness ==
    \E t \in TaskIds :
        /\ tasks[t].stop = "channel"
        /\ tasks[t].nsent > 0
        /\ dropped # {}

\* the tasks operating on plot p: the drive tasks between the prepare of p
\* and the end of their visit of p, and the wakeup closures seeking in p
Operating(p) ==
    {t \in TaskIds : /\ tasks[t].pc \in {"recv", "read", "send", "signal"}
                     /\ CurPlot(t) = p}
    \cup {WakeId(d) : d \in {e \in Drives : /\ wake[e].pc = "seek"
                                            /\ drive_id_to_plots[e][1] = p}}

\* C19: whoever operates on a plot (a drive task of any round from its
\* prepare to the end of its visit of the plot, a wakeup closure while it
\* seeks) holds the guard of that plot, so no two of them operate on one
\* plot at a time; a drive task takes the guard in the step of its prepare
\* and reads only the plot whose guard it holds; a wakeup closure takes the
\* guard of the drive's first plot only when no one holds it.
C19_PlotExclusion ==
    /\ [](\A p \in PlotIds : \A x \in Operating(p) : guard[p] = x)
    /\ [][/\ \A t \in TaskIds :
               /\ (tasks[t].pc = "lock" /\ tasks'[t].pc = "recv")
                  => /\ guard[CurPlot(t)] = NoTask
                     /\ guard'[CurPlot(t)] = t
               /\ (tasks[t].pc = "read" /\ tasks'[t].pc = "send")
                  => /\ guard[CurPlot(t)] = t
                     /\ \A p \in PlotIds \ {CurPlot(t)} : plots'[p] = plots[p]
          /\ \A d \in Drives :
               (wake[d].pc = "lock" /\ wake'[d].pc = "seek")
               => /\ guard[drive_id_to_plots[d][1]] = NoTask
                  /\ guard'[drive_id_to_plots[d][1]] = WakeId(d)]_vars

\* C19, reached: a wakeup closure waits for the first plot of its drive
\* while a drive task of the last round, which holds the plot, is about to
\* read it
C19_Witness ==
    \E d \in Drives : \E t \in TaskIds :
          /\ wake[d].pc = "lock"
          /\ guard[drive_id_to_plots[d][1]] = t
          /\ tasks[t].pc = "read"
          /\ round = MaxRounds

\* C20: a poisoned Mutex stops no one.  A drive task that reaches a plot
\* whose guard is free can take it and go on to read the plot, a wakeup
\* closure can take the first plot of its drive, and update_plots can run
\* check_overlap over the table, whether or not the plots are poisoned.
C20_PoisonRecovered ==
    /\ \A t \in TaskIds :
          (tasks[t].pc = "lock" /\ guard[CurPlot(t)] = NoTask)
          => ENABLED TaskPrepare(t)
    /\ \A d \in Drives :
          (wake[d].pc = "lock" /\ guard[drive_id_to_plots[d][1]] = NoTask)
          => ENABLED WakeLock(d)
    /\ (\A p \in PlotIds : guard[p] = NoTask)
          => ENABLED UpdatePlots(drive_id_to_plots, total_size, FALSE)

\* C20, reached: with every plot poisoned, a drive task has sent the data
\* of a successful read of a plot, the wakeup closure has returned, and
\* check_overlap has compared the plots
C20_Witness ==
    /\ \A p \in PlotIds : poisoned[p]
    /\ \E t \in TaskIds : \E m \in DataReplies(t) : m.ok /\ m.len > 0
    /\ \E d \in Drives : wake[d].pc = "done"
    /\ overlaps # {}

TableOverlaps(tbl) ==
    LET ms == collect_metas(tbl)
    IN  \E i, j \in 1..Len(ms) :
          /\ i # j
          /\ ms[i].account_id = ms[j].account_id
          /\ MetaInterval(ms[i]) \cap MetaInterval(ms[j]) # {}

\* C22: for every drive table, check_overlap returns true exactly when the
\* table holds two distinct plots of one account whose nonce intervals
\* intersect.  Fails on a table with a plot of no nonces whose start_nonce
\* lies inside the interval of another plot of the account: overlaps_with
\* returns true for the pair (plot.rs:36-37), and so does check_overlap.
C22_CheckOverlapIff ==
    \A seq \in Tables :
        check_overlap([d \in Drives |-> seq])
        <=> TableOverlaps([d \in Drives |-> seq])

\* C23: a step of update_plots changes no drive task, no guard, no plot, no
\* channel and not the interrupt list.  A spawned task keeps the plot list
\* it was given: the list is the table of the moment of its start_reading,
\* it never changes afterwards, and the plot the task locks, prepares and
\* reads is the one its own list names.  The next start_reading sends an
\* interrupt to every task of the interrupt list that has not returned,
\* whatever the table has become.
C23_UpdateLeavesTasks ==
    [][/\ drive_id_to_plots' # drive_id_to_plots
          => /\ tasks' = tasks /\ interupts' = interupts /\ guard' = guard
             /\ plots' = plots /\ chan' = chan
             /\ empty_buffers' = empty_buffers /\ round' = round
       /\ \A t \in TaskIds :
            LET a == tasks[t]
                b == tasks'[t]
            IN  /\ (a.pc = "none" /\ b.pc # "none")
                   => b.plots = drive_id_to_plots[t[2]]
                /\ a.pc # "none" => b.plots = a.plots
                /\ (a.pc = "lock" /\ b.pc = "recv")
                   => /\ guard'[a.plots[a.i_p]] = t
                      /\ \A p \in PlotIds \ {a.plots[a.i_p]} :
                           guard'[p] = guard[p] /\ plots'[p] = plots[p]
                /\ (a.pc = "read" /\ b.pc = "send")
                   => \A p \in PlotIds \ {a.plots[a.i_p]} : plots'[p] = plots[p]
                /\ (round' # round /\ t \in interupts /\ a.pc # "done")
                   => b.irq = a.irq + 1]_vars

\* C23, reached: a task spawned with the table <<1, 2>> reads its second
\* plot, plot 2, after update_plots has left the reader with the table <<1>>
C23_Witness ==
    \E t \in TaskIds :
        /\ tasks[t].plots = <<1, 2>>
        /\ drive_id_to_plots = [d \in Drives |-> <<1>>]
        /\ tasks[t].pc = "send"
        /\ tasks[t].i_p = 2
        /\ tasks[t].read_ok
        /\ guard[2] = t

\* C24: a start_reading step queues exactly one interrupt signal for every
\* task of the previous start_reading that has not returned and none for any
\* other task, and leaves the interrupt list holding exactly the tasks it
\* spawns, one per drive of the current table, each queued with no signal
\* pending; no other step changes the interrupt list or queues a signal.
C24_InterruptsPerRound ==
    [][/\ round' # round
          => /\ \A t \in TaskIds :
                  LET a == tasks[t]
                      b == tasks'[t]
                  IN  /\ (t[1] = round /\ a.pc # "done") => b.irq = a.irq + 1
                      /\ (t[1] = round /\ a.pc = "done") => b = a
                      /\ t[1] < round => b = a
                      /\ t[1] = round'
                         => /\ t \in interupts' <=> t[2] \in DOMAIN drive_id_to_plots
                            /\ t \in interupts'
                               => /\ a.pc = "none" /\ b.pc = "queued"
                                  /\ b.irq = 0
                                  /\ b.plots = drive_id_to_plots[t[2]]
             /\ \A t \in interupts' : t[1] = round'
       /\ round' = round
          => /\ interupts' = interupts
             /\ \A t \in TaskIds : tasks'[t].irq <= tasks[t].irq]_vars

\* C24, reached: the second start_reading has signalled a task of the first
\* that was still reading, and the interrupt list holds the task of the
\* second round
C24_Witness ==
    /\ round = 2
    /\ interupts = {<<2, d>> : d \in Drives}
    /\ \E t \in TaskIds :
         t[1] = 1 /\ tasks[t].irq = 1 /\ tasks[t].pc = "read"

\* C25: every data reply a channel has carried holds a buffer whose id
\* selects that channel, id 0 the CPU channel and id i >= 1 the GPU channel
\* i - 1; every message of the CPU channel has gpu_signal 0; every marker
\* (gpu_signal 1 or 2) is on a GPU channel.
C25_RepliesRouted ==
    \A c \in Chans : \A i \in 1..Len(chan[c]) :
        LET m == chan[c][i]
        IN  /\ m.gpu_signal = 0
               => /\ m.buffer \in Buffers
                  /\ get_id(m.buffer) = 0 => c = 0
                  /\ get_id(m.buffer) >= 1
                     => c \in GpuChans /\ c - 1 = get_id(m.buffer) - 1
            /\ c = 0 => m.gpu_signal = 0
            /\ m.gpu_signal \in {1, 2} => c \in GpuChans
            /\ m.gpu_signal \in {0, 1, 2}

\* C25, reached: the CPU channel and a GPU channel have each carried a data
\* reply, and the GPU channel both kinds of marker
C25_Witness ==
    /\ \E i \in 1..Len(chan[0]) : get_id(chan[0][i].buffer) = 0
    /\ \E c \in GpuChans :
         /\ \E i \in 1..Len(chan[c]) :
              chan[c][i].gpu_signal = 0 /\ get_id(chan[c][i].buffer) = c
         /\ \E i, j \in 1..Len(chan[c]) :
              chan[c][i].gpu_signal = 1 /\ chan[c][j].gpu_signal = 2

\* the file is a regular file whose name has three fields that parse and
\* whose length is the exact product nonces x NONCE_SIZE
WellFormedPlotFile(inp) ==
    /\ inp.is_file
    /\ Len(inp.name) = 3
    /\ \A i \in 1..Len(inp.name) : inp.name[i].digits
    /\ inp.size = inp.name[3].value * NONCE_SIZE

\* C26: Plot::new returns a Plot only for a regular file whose name has
\* three fields that parse as u64 and whose length is the exact product
\* nonces x NONCE_SIZE, and returns an error for every other file.  Fails for
\* a nonces whose product leaves the word: a build that wraps accepts a file
\* whose length equals the wrapped product, and a build that checks overflow
\* panics (plot.rs:127).
C26_NewAcceptsExactSize ==
    \A i \in 1..Len(created) :
        LET c == created[i]
        IN  /\ c.out.result = "ok" => WellFormedPlotFile(c.inp)
            /\ ~WellFormedPlotFile(c.inp) => c.out.result = "err"

\* the calls of Plot::new that asked for direct I/O on a plot of fewer
\* nonces than sector_size / 64
TooSmallForDirect ==
    {i \in 1..Len(created) :
        /\ created[i].out.result = "ok"
        /\ created[i].inp.use_direct_io
        /\ created[i].inp.sector_size \div 64 > created[i].inp.name[3].value}

\* C27: a plot Plot::new returned for a call that asked for direct I/O with
\* sector_size / 64 > nonces has use_direct_io = FALSE from construction on;
\* every prepare leaves it with align_offset = 0 and seek_base = scoop x
\* nonces x 64, every read of it goes to seek_base + read_offset, and a visit
\* that runs to the end of the scoop region has emitted nonces x 64 bytes.
C27_SmallPlotBuffered ==
    TooSmallForDirect # {}
    => /\ \A i \in TooSmallForDirect : ~created[i].out.plot[1].use_direct_io
       /\ ~plots[1].use_direct_io
       /\ plots[1].align_offset = 0
       /\ \A t \in TaskIds :
            /\ (tasks[t].pc \in {"recv", "read", "send"} /\ CurPlot(t) = 1)
               => plots[1].seek_base
                    = tasks[t].scoop * plots[1].meta.nonces * SCOOP_SIZE
            /\ VisitComplete(t, 1)
               => SumLen(VisitReplies(t, 1)) = plots[1].meta.nonces * 64

\* C27, reached: a plot of 3 nonces on 256-byte sectors, opened with direct
\* I/O asked for, has been visited to the end at a scoop other than 0 and
\* its 192 bytes were emitted
C27_Witness ==
    /\ TooSmallForDirect # {}
    /\ plots[1].meta.nonces = 3 /\ plots[1].sector_size = 256
    /\ \E t \in TaskIds :
         /\ tasks[t].scoop = 1
         /\ VisitComplete(t, 1)
         /\ SumLen(VisitReplies(t, 1)) = 192

\* the deadlines recorded as successes for an account
DeadlinesOf(account_id) == {x[2] : x \in {y \in submitted : y[1] = account_id}}

\* C28: best_deadlines has an entry exactly for the accounts with a recorded
\* success, and the entry is the least deadline recorded for the account;
\* no step raises an entry or removes one.
C28_BestIsMinimum ==
    /\ [](/\ DOMAIN metrics.best_deadlines
              = {a \in Accounts : DeadlinesOf(a) # {}}
          /\ \A a \in DOMAIN metrics.best_deadlines :
               /\ metrics.best_deadlines[a] \in DeadlinesOf(a)
               /\ \A d \in DeadlinesOf(a) : metrics.best_deadlines[a] <= d)
    /\ [][\A a \in DOMAIN metrics.best_deadlines :
             /\ a \in DOMAIN metrics'.best_deadlines
             /\ metrics'.best_deadlines[a] <= metrics.best_deadlines[a]]_vars

\* C28, reached: an account for which a larger deadline was recorded after
\* a smaller one, and u64::MAX as the only deadline of another account
C28_Witness ==
    /\ DeadlinesOf(7) = {0, 1}
    /\ metrics.best_deadlines[7] = 0
    /\ DeadlinesOf(8) = {WordModulus - 1}
    /\ metrics.best_deadlines[8] = WordModulus - 1
    /\ metrics.successful_submissions = 3

\* more than pct I/O errors per 100 MiB read
IoErrorsPerMiBExceed(m, pct) ==
    m.total_io_errors * MiB * 100 > pct * m.total_bytes_read

\* more than pct of 100 recorded rounds failed
RoundFailuresExceed(m, pct) ==
    m.rounds_failed * 100 > pct * (m.rounds_completed + m.rounds_failed)

\* C29: health_status is CRITICAL exactly when the I/O errors per MiB read
\* exceed 5%, or the share of failed rounds exceeds 20%, or there are more
\* than 100 network errors; else WARNING exactly when one of them exceeds
\* 1%, 10% or 50; else HEALTHY.  Fails on the metrics MinerMetrics::new
\* returns: no round was recorded, round_success_rate() is 0.0, the failure
\* rate is taken as 100.0 and the status is CRITICAL.
C29_HealthTiers ==
    health_status(metrics)
      = IF \/ IoErrorsPerMiBExceed(metrics, 5)
           \/ RoundFailuresExceed(metrics, 20)
           \/ metrics.network_errors > 100
        THEN "CRITICAL"
        ELSE IF \/ IoErrorsPerMiBExceed(metrics, 1)
                \/ RoundFailuresExceed(metrics, 10)
                \/ metrics.network_errors > 50
        THEN "WARNING"
        ELSE "HEALTHY"

\* the tasks that hold buffer b, and its places in the pool
Held(b) == {t \in TaskIds : tasks[t].buffer = b}
InPool(b) == {i \in 1..Len(empty_buffers) : empty_buffers[i] = b}

\* the data replies of channel c whose buffer the consumer has not sent back
Unreturned(c) ==
    {i \in 1..Len(chan[c]) :
        /\ chan[c][i].gpu_signal = 0
        /\ chan[c][i].buffer \in Outstanding(c)
        /\ i = LastSent(c, chan[c][i].buffer)}

\* C30: a buffer is in at most one place, the hand of one task or one slot
\* of the pool, and a destroyed buffer in none; a task withdraws a buffer
\* only with an empty hand, every buffer it withdrew before having been sent
\* in a reply or sent back to the pool; the data replies whose buffer no
\* consumer has returned are never more than the buffers.
C30_OneBufferInHand ==
    /\ [](/\ \A b \in Buffers :
               /\ Cardinality(Held(b)) + Cardinality(InPool(b)) <= 1
               /\ b \in dropped => Held(b) = {} /\ InPool(b) = {}
          /\ \A t \in TaskIds :
               tasks[t].withdrawn - tasks[t].nsent - tasks[t].returned
                 \in {0, 1}
          /\ Cardinality(UNION {{<<c, i>> : i \in Unreturned(c)} : c \in Chans})
               + Cardinality({b \in Buffers : Held(b) # {}})
               <= Cardinality(Buffers))
    /\ [][\A t \in TaskIds :
             tasks'[t].withdrawn = tasks[t].withdrawn + 1
             => /\ tasks[t].buffer = NoBuffer
                /\ tasks[t].withdrawn = tasks[t].nsent + tasks[t].returned
                /\ tasks'[t].buffer = Head(empty_buffers)
                /\ \A i \in 1..Len(empty_buffers') :
                     empty_buffers'[i] # tasks'[t].buffer]_vars

\* C30, reached: both buffers are out, one in an unreturned reply and one in
\* the hand of a task that has sent a reply before, and the pool is empty
C30_Witness ==
    /\ empty_buffers = <<>>
    /\ \E c \in Chans : Unreturned(c) # {}
    /\ \E t \in TaskIds :
         /\ tasks[t].buffer # NoBuffer
         /\ tasks[t].nsent + tasks[t].returned >= 1

\* C31: a p.read that returns Ok reports the end of the plot exactly when
\* the buffer capacity is at least nonces x 64 - read_offset, returns the
\* buffer capacity as bytes_read when it does not report the end, and adds
\* bytes_read to read_offset; a p.read that returns Err leaves read_offset
\* as it was.
C31_ReadContract ==
    [][\A t \in TaskIds :
          LET a == tasks[t]
              b == tasks'[t]
              p == a.plots[a.i_p]
              remaining == plots[p].meta.nonces * 64 - plots[p].read_offset
          IN  (a.pc = "read" /\ b.pc = "send")
              => IF b.read_ok
                 THEN /\ b.next_plot <=> buffer_cap >= remaining
                      /\ ~b.next_plot => b.bytes_read = buffer_cap
                      /\ b.bytes_read <= remaining
                      /\ plots'[p].read_offset
                           = plots[p].read_offset + b.bytes_read
                 ELSE plots'[p].read_offset = plots[p].read_offset]_vars

\* C31, reached: a plot whose scoop region is exactly two buffers long was
\* read by a full read that did not end it and a full read that did
C31_Witness ==
    \E t \in TaskIds : \E m, n \in VisitReplies(t, 1) :
        /\ plots[1].meta.nonces * 64 = 2 * buffer_cap
        /\ m.ok /\ ~m.last /\ m.len = buffer_cap
        /\ n.ok /\ n.last /\ n.len = buffer_cap

\* the place of reply m among the replies of the visit of plot p by task t
Rank(t, p, m) == Cardinality({n \in VisitReplies(t, p) : n.seq <= m.seq})

\* the reads of plot p behind the first k replies of task t all returned Ok
AllOkUpTo(t, p, k) ==
    \A m \in VisitReplies(t, p) : Rank(t, p, m) <= k => m.ok

\* C32: of two plots with the same metadata visited at the same scoop with
\* the same buffer capacity, one a dummy and one read normally with every
\* read succeeding, the k-th reads return the same (bytes_read, start_nonce,
\* finished), and the visits leave the same read_offset; a read of the dummy
\* never fails.
C32_DummyMatchesNormal ==
    \A t \in TaskIds :
        /\ \A n \in VisitReplies(t, 2) : n.ok
        /\ \A m \in VisitReplies(t, 1), n \in VisitReplies(t, 2) :
             (Rank(t, 1, m) = Rank(t, 2, n) /\ AllOkUpTo(t, 1, Rank(t, 1, m)))
             => /\ m.len = n.len
                /\ m.start_nonce = n.start_nonce
                /\ m.last = n.last
        /\ (/\ VisitComplete(t, 1) /\ VisitComplete(t, 2)
            /\ tasks[t].pc = "done")
           => plots[1].read_offset = plots[2].read_offset

\* C32, reached: both visits took three reads under direct I/O, the last one
\* shortened, and ran to the end
C32_Witness ==
    \E t \in TaskIds :
        /\ VisitComplete(t, 1) /\ VisitComplete(t, 2)
        /\ Cardinality(VisitReplies(t, 1)) = 3
        /\ Cardinality(VisitReplies(t, 2)) = 3
        /\ plots[2].use_direct_io
        /\ plots[2].read_offset < plots[2].meta.nonces * 64
        /\ tasks[t].scoop > 0
        /\ tasks[t].pc = "done"

\* C33: a data reply is dispatched only by a task that has passed the
\* interrupt check of its fill; a task with a signal pending in its interrupt
\* channel that is not at the dispatch never gets to one again, so that after
\* the signal was sent it emits at most the one reply it was dispatching; the
\* signal comes from a later round, and every reply the task emits carries
\* the height its own round was started with.
C33_OneMoreReplyAtMost ==
    [][\A t \in TaskIds :
          /\ tasks'[t].nsent > tasks[t].nsent => tasks[t].pc = "send"
          /\ (tasks[t].irq > 0 /\ tasks[t].pc # "send")
             => (tasks'[t].pc # "send" /\ tasks'[t].nsent = tasks[t].nsent)
          /\ tasks'[t].irq > 0 => round' > t[1]
          /\ \A m \in DataReplies(t)' : m.height = 100 + t[1]]_vars

\* C33, reached: on a GPU channel a reply of the first round's task follows
\* the start marker of the second round, whose start signalled the task
\* while it was dispatching that reply
C33_Witness ==
    \E t \in TaskIds, c \in GpuChans :
        /\ tasks[t].pc = "done"
        /\ \E i, j \in 1..Len(chan[c]) :
             /\ i < j
             /\ chan[c][i].gpu_signal = 1 /\ chan[c][i].height = 100 + t[1] + 1
             /\ chan[c][j].gpu_signal = 0 /\ chan[c][j].task = t
             /\ chan[c][j].height = 100 + t[1]

\* C35: a task is spawned with an empty interrupt channel; a signal is queued
\* for it only by a start_reading that begins a round later than its own; and
\* a task that ended on an interrupt belongs to a round that was superseded.
C35_NoInterruptFromOwnStart ==
    /\ [](\A t \in TaskIds :
             /\ tasks[t].pc = "queued" /\ round = t[1] => tasks[t].irq = 0
             /\ tasks[t].stop = "interrupt" => round > t[1])
    /\ [][\A t \in TaskIds :
             /\ (tasks[t].pc = "none" /\ tasks'[t].pc # "none")
                => (tasks'[t].irq = 0 /\ round' = t[1])
             /\ tasks'[t].irq > tasks[t].irq
                => (round' = round + 1 /\ round' > t[1])]_vars

\* C35, reached: the second start interrupted the first round's task, and the
\* task it spawned read both plots to the end
C35_Witness ==
    /\ round = 2
    /\ tasks[<<1, 1>>].stop = "interrupt"
    /\ tasks[<<2, 1>>].stop = "end"
    /\ tasks[<<2, 1>>].nsent = 2
    /\ \E m \in DataReplies(<<2, 1>>) : m.finished

\* C36: the reply dispatched for a buffer whose read failed has len = 0, and
\* so has the reply a task is about to build after a failed read.
C36_FailedReadHasNoBytes ==
    /\ \A m \in AllMsgs : (m.gpu_signal = 0 /\ ~m.ok) => m.len = 0
    /\ \A t \in TaskIds :
         (tasks[t].pc = "send" /\ ~tasks[t].read_ok) => tasks[t].bytes_read = 0

\* C36, reached: the second read of a plot failed after a full first one,
\* and its reply went out
C36_Witness ==
    \E t \in TaskIds :
        \E m, n \in VisitReplies(t, 1) :
            /\ m.seq < n.seq
            /\ m.ok /\ m.len = buffer_cap
            /\ ~n.ok /\ n.len = 0

\* ceil(r / c) for c > 0
CeilDiv(r, c) == (r + c - 1) \div c

\* C37: a complete visit of a buffered plot with a scoop region of
\* R = nonces * 64 > 0 bytes emits exactly ceil(R / buffer_cap) data replies;
\* all but the last have len = buffer_cap and do not end the plot, and the
\* last one ends it.
C37_ReplyCount ==
    \A t \in TaskIds :
        (/\ VisitComplete(t, 1)
         /\ ~plots[1].use_direct_io
         /\ plots[1].meta.nonces > 0)
        => LET N == CeilDiv(plots[1].meta.nonces * SCOOP_SIZE, buffer_cap)
           IN  /\ Cardinality(VisitReplies(t, 1)) = N
               /\ \A m \in VisitReplies(t, 1) :
                    IF Rank(t, 1, m) < N
                    THEN m.ok /\ m.len = buffer_cap /\ ~m.last
                    ELSE m.ok /\ m.last

\* C37, reached: a buffered plot whose scoop region is exactly two buffers
\* long was read to the end in two replies
C37_Witness ==
    \E t \in TaskIds :
        /\ VisitComplete(t, 1)
        /\ ~plots[1].use_direct_io
        /\ plots[1].meta.nonces * SCOOP_SIZE = 2 * buffer_cap
        /\ Cardinality(VisitReplies(t, 1)) = 2

\* C38: a step of a wakeup (its spawn, its start on a pool thread, its lock
\* and its seek, successful or not) leaves read_offset, align_offset and
\* seek_base of every plot as they were, takes no buffer from empty_buffers
\* and enqueues nothing on a reply channel.
C38_WakeupFrame ==
    [][wake' # wake =>
          /\ \A p \in PlotIds :
               /\ plots'[p].read_offset = plots[p].read_offset
               /\ plots'[p].align_offset = plots[p].align_offset
               /\ plots'[p].seek_base = plots[p].seek_base
          /\ empty_buffers' = empty_buffers
          /\ chan' = chan]_vars

\* C38, reached: a wakeup closure has run to its end on a plot that a visit
\* under direct I/O left with all three fields set
C38_Witness ==
    \E d \in Drives :
        /\ wake[d].pc = "done"
        /\ plots[drive_id_to_plots[d][1]].read_offset > 0
        /\ plots[drive_id_to_plots[d][1]].align_offset > 0
        /\ plots[drive_id_to_plots[d][1]].seek_base > 0
        /\ \A t \in TaskIds : tasks[t].pc \in {"none", "done"}

\* C39: every call a.overlaps_with(b) that check_overlap makes has the
\* outcome of b.overlaps_with(a), result and count and, where a build checks
\* overflow, panic alike; and check_overlap has the same outcome on the two
\* orders of a table.  Fails in a build with overflow checks for a Meta
\* whose start_nonce + nonces leaves u64: the `&&` of plot.rs:36-37 computes
\* that sum only in one of the two orders.
C39_OverlapsSymmetric ==
    /\ \A c \in overlaps :
         LET r == overlaps_with(c.other, c.self)
         IN  r.result = c.result /\ r.overlap = c.overlap /\ r.panics = c.panics
    /\ overlaps # {}
       => /\ check_overlap([d \in Drives |-> <<1, 2>>])
             = check_overlap([d \in Drives |-> <<2, 1>>])
          /\ check_overlap_panics([d \in Drives |-> <<1, 2>>])
             = check_overlap_panics([d \in Drives |-> <<2, 1>>])

\* C40: health_status is CRITICAL or WARNING only when an I/O error, a round
\* failure or a network error has been recorded; fresh metrics and metrics
\* with successes only are HEALTHY.  Fails on the metrics MinerMetrics::new
\* returns, and as long as no round has been recorded: round_success_rate()
\* is 0.0 then and health_status takes the failure rate as 100.0.
C40_UnhealthyOnlyAfterFailure ==
    health_status(metrics) # "HEALTHY"
    => \/ metrics.total_io_errors > 0
       \/ metrics.rounds_failed > 0
       \/ metrics.network_errors > 0

\* C34: with the pool running every closure and the consumers sending back
\* every buffer they receive, every drive task that was spawned eventually
\* returns once start_reading is called no more, wakeup closures and the
\* previous round's task competing for guards and pool threads.  Fails with
\* C1: a task whose send fails destroys the buffer in its hand, and when the
\* last buffer of the pool has gone this way the task of the new round
\* waits in the receive on empty_buffers for ever, holding a plot guard and
\* a pool thread.
C34_RoundTerminates ==
    \A t \in TaskIds :
        <>[](round = t[1]) => <>(tasks[t].pc = "done")

=============================================================================
